---- MODULE Spec2Model ----
(***************************************************************************)
(* Row-level access control of django_group_access (vendored in           *)
(* RegistronAPI): the rule evaluator, the query interceptor and the        *)
(* metadata propagator, over a small database of one directly controlled   *)
(* type "D" (owner + access_groups) and one delegated type "R" whose       *)
(* control relation is the reverse foreign key from "D" (D.parent -> R).   *)
(*                                                                         *)
(* The ORM itself is not part of the repository.  Its behaviour is taken   *)
(* as Django 1.4-1.6 documents it: an empty Q() is the identity of | and   *)
(* matches everything when filtered on; all conditions of one filter()     *)
(* call share the join of a multi-valued relation; an isnull=True lookup   *)
(* through a relation uses LEFT OUTER JOINs, so that it also matches a     *)
(* record that has no related record at all; QuerySet._clone copies none   *)
(* of the access-control attributes by itself; filter() on a sliced query  *)
(* raises AssertionError; a ValuesQuerySet has its own _as_sql.            *)
(* The per-queryset result cache is not modelled: every operation goes to  *)
(* the database through the interceptor.                                   *)
(***************************************************************************)
EXTENDS Integers, Sequences, FiniteSets, TLC

VARIABLES
    db,        \* the database rows and the group table
    settings,  \* DGA_UNSHARED_RECORDS_ARE_PUBLIC, DGA_NO_RELATED_RECORD_VISIBILITY
    ambient,   \* middleware._storage.access_control_user of the running thread
    qs,        \* the queryset object the caller holds
    inst,      \* the model instance the caller holds
    out,       \* outcome of the last database operation
    alias,     \* two queryset objects and the metadata dictionaries they share
    threads,   \* middleware._storage and the request each thread is handling
    groupdb,   \* the AccessGroup table with its sharing relations, and a record
    registry,  \* registration.py's module state and the registered classes
    hookrun,   \* the registered extra hooks and the last run of the rule evaluator
    accounts,  \* the User and Profile tables of registronapi
    departs    \* the Department table and the requests to registrondeparts

\* the database, the queryset and the instance of one caller
core == <<db, settings, ambient, qs, inst, out>>

\* the parts of the state the operations on one queryset do not touch
aux == <<alias, threads, groupdb, registry, hookrun, accounts, departs>>

\* what the operations on one part of aux leave alone
app == <<hookrun, accounts, departs>>
notAlias == <<core, threads, groupdb, registry, app>>
notThreads == <<core, alias, groupdb, registry, app>>
notGroupdb == <<core, alias, threads, registry, app>>
notRegistry == <<core, alias, threads, groupdb, app>>
notHookrun == <<core, alias, threads, groupdb, registry, accounts, departs>>
notAccounts == <<core, alias, threads, groupdb, registry, hookrun, departs>>
notDeparts == <<core, alias, threads, groupdb, registry, hookrun, accounts>>

vars == <<core, aux>>

----------------------------------------------------------------------------
(* Bounds *)

NumD == 2       \* records of the directly controlled type
NumR == 2       \* records of the delegated type

Null == "null"  \* None / attribute absent

Users == {"a", "b", "anon"}
AuthUsers == {"a", "b"}
Groups == {"g1", "g2"}
Models == {"D", "R"}

DIds == 1..NumD
RIds == 1..NumR

\* the rows of "N" are kept in the table of "D": the two types differ in
\* their registration only
Ids(model) == IF model = "R" THEN RIds ELSE DIds

----------------------------------------------------------------------------
(* Registry (registration.py) *)

\* _registered_models after register(D), register(R, control_relation=...)
\* and register(N, auto_filter=False)
RegisteredModels == {"D", "R", "N"}

\* _auto_filter_models: the types registered with the default auto_filter=True
AutoFilterModels == {"D", "R"}

\* model.access_control_relation is set only by register(model, control_relation)
HasControlRelation(model) == model = "R"

\* register(owner=True) contributes an owner field
HasOwner(model) == model \in {"D", "R", "N"}

is_registered_model(model) == model \in RegisteredModels

is_auto_filtered(model) == model \in AutoFilterModels

\* _is_superuser: user.is_superuser
IsSuperuser(user) == user \in db.superusers

\* _unrestricted_access_hooks[model] = [_is_superuser] + unrestricted_access_hooks
get_unrestricted_access_hooks(model) == <<"is_superuser">>

HookHolds(hook, user) == hook = "is_superuser" /\ IsSuperuser(user)

\* user.is_authenticated(): False only for AnonymousUser
IsAuthenticated(user) == user \in AuthUsers

----------------------------------------------------------------------------
(* Rule evaluator (models.py) *)

\* the group lookup without its members=user condition
UserGroupsUnconditioned(user) == Groups

\* group_model.objects.filter(members=user)
UserGroups(user) == {g \in Groups : user \in db.members[g]}

\* the evaluator without its supergroup check
InSupergroupUnchecked(user) == FALSE

\* group_model.objects.filter(**group_dict).filter(supergroup=True).count()
InSupergroup(user) == \E g \in UserGroups(user) : db.supergroup[g]

\* the control relation left unresolved: the queried type itself
control_relation_model_unresolved(model) == model

\* the model the hooks are looked up for
_get_control_relation_model(model) == IF HasControlRelation(model) THEN "D" ELSE model

\* the related records of a record of the delegated type (D.parent is the
\* key of a record of the delegated type, or 0 for NULL)
Related(r) == {d \in DIds : db.parent[d] = r}

\* the owner terms of the delegated rules with one more for the owner field
\* of the queried type itself
relation_owner_terms_with_own_owner(model, hookModel) ==
    (IF HasOwner(hookModel) THEN {"rel_owner"} ELSE {})
    \cup (IF HasOwner(model) THEN {"own_owner"} ELSE {})

\* the owner terms of the delegated rules: <relation>__owner=user when the
\* related type has an owner field; the queried type's own is not looked at
relation_owner_terms(model, hookModel) ==
    IF HasOwner(hookModel) THEN {"rel_owner"} ELSE {}

\* _get_accessible_by_user_filter_rules: the Q object as the set of its
\* or-ed terms; the empty set is models.Q(), which matches everything.
FilterRules(model, user) ==
    LET hookModel == _get_control_relation_model(model)
        hooks == get_unrestricted_access_hooks(hookModel)
        privileged ==
            /\ IsAuthenticated(user)
            /\ \/ \E i \in 1..Len(hooks) : HookHolds(hooks[i], user)
               \/ InSupergroup(user)
    IN IF privileged THEN {}
       ELSE IF HasControlRelation(model)
       THEN (IF IsAuthenticated(user)
                THEN relation_owner_terms(model, hookModel)
                     \cup {"rel_groups"}
                ELSE {})
            \cup (IF settings.noRelatedVisible THEN {"rel_isnull"} ELSE {})
            \cup (IF settings.unsharedPublic THEN {"rel_groups_isnull"} ELSE {})
       ELSE IF IsAuthenticated(user)
       THEN {"groups"}
            \cup (IF HasOwner(model) THEN {"owner"} ELSE {})
            \cup (IF settings.unsharedPublic THEN {"groups_isnull"} ELSE {})
       ELSE {"groups_isnull"}

\* access_relation_model.objects.filter(access_groups__in=<the groups of the
\* user>): the queryset over the related type the evaluator builds, as the
\* keys its conditions admit
accessible_through_group(user) ==
    {d \in DIds : db.groups[d] \cap UserGroups(user) # {}}

\* the nested SQL taken through the wrapped QuerySet._as_sql: filtered for
\* the ambient actor, the related type being auto-filtered
values_as_sql_through_wrapper(pks, amb) ==
    IF amb = Null THEN pks
    ELSE {d \in pks : \/ db.owner[d] = amb
                      \/ db.groups[d] \cap UserGroups(amb) # {}}

\* accessible_through_group.values('pk') as the value of pk__in: the nested
\* SQL comes from ValuesQuerySet._as_sql, which is not a wrapped method, so
\* the ambient actor amb plays no part
values_as_sql(pks, amb) == pks

\* One term of the Q object on record r, as the ORM evaluates it.
TermHolds(term, user, r) ==
    CASE term = "groups" -> db.groups[r] \cap UserGroups(user) # {}
      [] term = "owner" -> db.owner[r] = user
      [] term = "own_owner" -> db.rowner[r] = user
      [] term = "groups_isnull" -> db.groups[r] = {}
      [] term = "rel_owner" -> \E d \in Related(r) : db.owner[d] = user
      [] term = "rel_groups" ->
             \E d \in Related(r) :
                 d \in values_as_sql(accessible_through_group(user), ambient)
      [] term = "rel_isnull" -> Related(r) = {}
      [] term = "rel_groups_isnull" ->
             \/ Related(r) = {}
             \/ \E d \in Related(r) : db.groups[d] = {}
      [] OTHER -> FALSE

\* The records of the model that filter(rules) keeps.
Visible(model, user) ==
    LET rules == FilterRules(model, user)
    IN IF rules = {} THEN Ids(model)
       ELSE {r \in Ids(model) : \E t \in rules : TermHolds(t, user, r)}

----------------------------------------------------------------------------
(* Queryset objects *)

\* A queryset as far as access control sees it:
\*   hasMeta/user/unres  _access_control_meta ({'user': .., 'unrestricted': ..})
\*   filtering           _access_control_filtering
\*   filtered            _access_has_been_filtered
\*   vis                 the actors whose visibility subquery (pk__in) is in
\*                       the where clause, in the order they were added
\*   none                an EmptyQuerySet (objects.none())
\*   pks                 the other conditions, as the primary keys they admit
\*   lim, rev            slice [0:lim] of the ordered result (0: no slice),
\*                       rev: ordered by descending key (latest)
\* Manager.get_query_set() of the default manager
NewQuerySet(model) ==
    [model |-> model, hasMeta |-> FALSE, user |-> Null, unres |-> FALSE,
     filtering |-> FALSE, filtered |-> FALSE, vis |-> <<>>, none |-> FALSE,
     pks |-> Ids(model), lim |-> 0, rev |-> FALSE]

\* QuerySet._clone with the metadata copied and the filtering guard left out
clone_queryset_without_guard(q) == [q EXCEPT !.filtered = FALSE, !.filtering = FALSE]

\* wrap_query_set_clone around QuerySet._clone: the metadata and the
\* filtering guard are copied, _access_has_been_filtered is not.
clone_queryset(q) == [q EXCEPT !.filtered = FALSE]

\* QuerySetMixin.accessible_by_user: sets the metadata on self, returns self
accessible_by_user(q, user) ==
    [q EXCEPT !.hasMeta = TRUE, !.user = user, !.unres = FALSE]

\* a clone marked unrestricted that keeps the actor it had
unrestrictedKeepingUser(q) ==
    [clone_queryset(q) EXCEPT !.hasMeta = TRUE, !.unres = TRUE]

\* QuerySetMixin.unrestricted: a clone with user None, unrestricted True
unrestricted(q) ==
    [clone_queryset(q) EXCEPT !.hasMeta = TRUE, !.user = Null, !.unres = TRUE]

\* query.can_filter(): no slice has been taken
can_filter(q) == q.lim = 0

\* the first k elements of a set of keys, ascending or descending
RECURSIVE FirstK(_, _, _)
FirstK(S, k, rev) ==
    IF k = 0 \/ S = {} THEN {}
    ELSE LET m == CHOOSE x \in S : \A y \in S : IF rev THEN y <= x ELSE x <= y
         IN {m} \cup FirstK(S \ {m}, k - 1, rev)

\* The rows the database returns for a queryset.
Matching(q) ==
    IF q.none THEN {}
    ELSE {r \in q.pks : \A i \in 1..Len(q.vis) : r \in Visible(q.model, q.vis[i])}

Eval(q) == IF q.lim = 0 THEN Matching(q) ELSE FirstK(Matching(q), q.lim, q.rev)

----------------------------------------------------------------------------
(* Query interceptor *)

\* the choice of the actor with the ambient actor consulted first
FilterUserAmbientFirst(q, amb) ==
    IF is_auto_filtered(q.model) /\ amb # Null THEN amb
    ELSE IF q.hasMeta THEN q.user
    ELSE Null

\* the actor _filter_for_access_control filters for
FilterUser(q, amb) ==
    IF q.hasMeta THEN q.user
    ELSE IF is_auto_filtered(q.model) THEN amb
    ELSE Null

\* _filter_for_access_control without the early return of an empty queryset
\* for an anonymous actor
filter_for_access_control_no_anonymous_check(q, amb) ==
    LET user == FilterUser(q, amb)
        asIs == [self |-> q, ret |-> q, same |-> TRUE, err |-> Null]
    IN IF ~is_registered_model(q.model) THEN asIs
       ELSE IF q.filtering THEN asIs
       ELSE IF user = Null THEN asIs
       ELSE IF q.none
       THEN [self |-> q, ret |-> q, same |-> TRUE, err |-> Null]
       ELSE IF ~can_filter(q)
       THEN [self |-> [q EXCEPT !.filtering = TRUE], ret |-> q,
             same |-> TRUE, err |-> "AssertionError"]
       ELSE [self |-> q,
             ret |-> [clone_queryset([q EXCEPT !.filtering = TRUE])
                        EXCEPT !.vis = Append(q.vis, user)],
             same |-> FALSE, err |-> Null]

\* QuerySetMixin._filter_for_access_control.  self: the receiver afterwards,
\* ret: the queryset returned, same: ret is the receiver itself,
\* err: the exception that escaped.
filter_for_access_control(q, amb) ==
    LET user == FilterUser(q, amb)
        asIs == [self |-> q, ret |-> q, same |-> TRUE, err |-> Null]
    IN IF ~is_registered_model(q.model) THEN asIs
       ELSE IF q.filtering THEN asIs
       ELSE IF user = Null THEN asIs
       ELSE IF ~IsAuthenticated(user) /\ ~settings.unsharedPublic
       THEN [self |-> q, ret |-> [NewQuerySet(q.model) EXCEPT !.none = TRUE],
             same |-> FALSE, err |-> Null]
       ELSE IF q.none
       THEN \* EmptyQuerySet.filter returns self
            [self |-> q, ret |-> q, same |-> TRUE, err |-> Null]
       ELSE IF ~can_filter(q)
       THEN \* self.filter raises; the guard set before it stays set
            [self |-> [q EXCEPT !.filtering = TRUE], ret |-> q,
             same |-> TRUE, err |-> "AssertionError"]
       ELSE \* both clones are made while the guard is set
            [self |-> q,
             ret |-> [clone_queryset([q EXCEPT !.filtering = TRUE])
                        EXCEPT !.vis = Append(q.vis, user)],
             same |-> FALSE, err |-> Null]

\* _filter_for_access_control when the rule evaluator raises exc in its
\* hook loop (a hook raises, or the hook list of the type is looked up and
\* missing): the loop is entered for an authenticated actor only, after the
\* guard was set
filter_for_access_control_rules_fail(q, amb, exc) ==
    LET user == FilterUser(q, amb)
    IN IF /\ is_registered_model(q.model)
          /\ ~q.filtering
          /\ user # Null
          /\ IsAuthenticated(user)
       THEN [self |-> [q EXCEPT !.filtering = TRUE], ret |-> q,
             same |-> TRUE, err |-> exc]
       ELSE filter_for_access_control(q, amb)

\* the queryset method as Django defines it, not wrapped
db_wrapper_absent(q, amb, exempt) == [self |-> q, qset |-> q, err |-> Null]

\* wrap_db_method.db_wrapper up to the call of the wrapped function.
\* exempt: used_in_unique_check and '_perform_unique_checks' is on the stack.
db_wrapper(q, amb, exempt) ==
    IF exempt \/ q.filtered
    THEN [self |-> q, qset |-> q, err |-> Null]
    ELSE LET f == filter_for_access_control(q, amb)
         IN IF f.err # Null
            THEN [self |-> f.self, qset |-> f.self, err |-> f.err]
            ELSE IF f.same
            THEN [self |-> [f.self EXCEPT !.filtered = TRUE],
                  qset |-> [f.self EXCEPT !.filtered = TRUE], err |-> Null]
            ELSE [self |-> f.self,
                  qset |-> [f.ret EXCEPT !.filtered = TRUE], err |-> Null]

\* self.filter(rules).distinct() inside _filter_for_access_control: two
\* clones of the guarded receiver, with the rules of the actor
visibility_subquery(q, user) ==
    [clone_queryset(clone_queryset([q EXCEPT !.filtering = TRUE]))
        EXCEPT !.vis = Append(q.vis, user)]

\* How many times _filter_for_access_control builds a filter when the SQL
\* of the queryset is taken through the wrapped _as_sql: for the queryset
\* itself, for the subquery of its filter, for the subquery of that
\* subquery's filter, and so on, counted up to fuel.
RECURSIVE NestedFilterings(_, _, _)
NestedFilterings(q, amb, fuel) ==
    LET f == filter_for_access_control(q, amb)
    IN IF fuel = 0 \/ q.filtered \/ f.same \/ f.err # Null \/ f.ret.none
       THEN 0
       ELSE 1 + NestedFilterings(visibility_subquery(q, FilterUser(q, amb)),
                                 amb, fuel - 1)

----------------------------------------------------------------------------
(* The wrapped queryset methods.  Each operator gives the receiver after the
   call (self), the rows the database read returned (res), the exception
   raised (err) and the visibility filters of the queryset the read ran on
   (applied). *)

Outcome(self, res, err, handed) ==
    [self |-> self, res |-> IF err = Null THEN res ELSE {}, err |-> err,
     applied |-> handed.vis]

\* count, aggregate, exists, iterator: the wrapped function reads the
\* database with the queryset db_wrapper hands it.
DirectRead(q, amb, exempt) ==
    LET w == db_wrapper(q, amb, exempt)
    IN Outcome(w.self, Eval(w.qset), w.err, w.qset)

\* count, iterator, ... when the rule evaluator raises exc: the exception
\* leaves db_wrapper before the mark is set and before the database is read
DirectReadRulesFail(q, amb, exc) ==
    LET f == filter_for_access_control_rules_fail(q, amb, exc)
    IN IF ~q.filtered /\ f.err = exc
       THEN Outcome(f.self, {}, f.err, f.self)
       ELSE DirectRead(q, amb, FALSE)

\* QuerySet.get(pk=k): filters a clone and takes its length, which goes
\* through the wrapped iterator of the clone.
Get(q, amb, k) ==
    LET w == db_wrapper(q, amb, FALSE)
        c == [clone_queryset(w.qset) EXCEPT !.pks = @ \cap {k}]
        w2 == db_wrapper(c, amb, FALSE)
    IN IF w.err # Null THEN Outcome(w.self, {}, w.err, w.qset)
       ELSE IF w.qset.none THEN Outcome(w.self, {}, "DoesNotExist", w.qset)
       ELSE IF ~can_filter(w.qset)
       THEN Outcome(w.self, {}, "AssertionError", w.qset)
       ELSE IF w2.err # Null THEN Outcome(w.self, {}, w2.err, w2.qset)
       ELSE IF Eval(w2.qset) = {}
       THEN Outcome(w.self, {}, "DoesNotExist", w2.qset)
       ELSE Outcome(w.self, Eval(w2.qset), Null, w2.qset)

\* QuerySet.__getitem__(0): a clone limited to one row is turned into a list
\* through its wrapped iterator.
Index(q, amb) ==
    LET w == db_wrapper(q, amb, FALSE)
        c == [clone_queryset(w.qset) EXCEPT !.lim = 1]
        w2 == db_wrapper(c, amb, FALSE)
    IN IF w.err # Null THEN Outcome(w.self, {}, w.err, w.qset)
       ELSE IF w.qset.none THEN Outcome(w.self, {}, "IndexError", w.qset)
       ELSE IF w2.err # Null THEN Outcome(w.self, {}, w2.err, w2.qset)
       ELSE IF Eval(w2.qset) = {}
       THEN Outcome(w.self, {}, "IndexError", w2.qset)
       ELSE Outcome(w.self, Eval(w2.qset), Null, w2.qset)

\* QuerySet.__getitem__(slice(0, 1)): returns a limited clone of the queryset
\* db_wrapper hands it; wrap_getitem puts the receiver's metadata on it.
Slice(q, amb) ==
    LET w == db_wrapper(q, amb, FALSE)
        c == [clone_queryset(w.qset) EXCEPT !.lim = 1]
        item == IF q.hasMeta
                THEN [c EXCEPT !.hasMeta = TRUE, !.user = q.user,
                               !.unres = q.unres]
                ELSE c
    IN [self |-> w.self, item |-> item, err |-> w.err]

\* QuerySet.latest: a clone limited to the last row, then the wrapped get
\* of that clone, whose filter() clone is read through its wrapped iterator.
Latest(q, amb) ==
    LET w == db_wrapper(q, amb, FALSE)
        obj == [clone_queryset(w.qset) EXCEPT !.lim = 1, !.rev = TRUE]
        w2 == db_wrapper(obj, amb, FALSE)
        c == clone_queryset(w2.qset)
        w3 == db_wrapper(c, amb, FALSE)
    IN IF w.err # Null THEN Outcome(w.self, {}, w.err, w.qset)
       ELSE IF ~can_filter(w.qset)
       THEN Outcome(w.self, {}, "AssertionError", w.qset)
       ELSE IF w2.err # Null THEN Outcome(w.self, {}, w2.err, w2.qset)
       ELSE IF w2.qset.none THEN Outcome(w.self, {}, "DoesNotExist", w2.qset)
       ELSE IF w3.err # Null THEN Outcome(w.self, {}, w3.err, w3.qset)
       ELSE IF Eval(w3.qset) = {}
       THEN Outcome(w.self, {}, "DoesNotExist", w3.qset)
       ELSE Outcome(w.self, Eval(w3.qset), Null, w3.qset)

\* QuerySet.in_bulk(ids): a clone filtered on pk__in is read through its
\* wrapped iterator.
InBulk(q, amb, ids) ==
    LET w == db_wrapper(q, amb, FALSE)
        c == [clone_queryset(w.qset) EXCEPT !.pks = @ \cap ids]
        w2 == db_wrapper(c, amb, FALSE)
    IN IF w.err # Null THEN Outcome(w.self, {}, w.err, w.qset)
       ELSE IF ~can_filter(w.qset)
       THEN Outcome(w.self, {}, "AssertionError", w.qset)
       ELSE IF w.qset.none THEN Outcome(w.self, {}, Null, w.qset)
       ELSE Outcome(w.self, Eval(w2.qset), w2.err, w2.qset)

----------------------------------------------------------------------------
(* Model instances and relationship navigation *)

NoQuery == [NewQuerySet("D") EXCEPT !.model = Null, !.pks = {}]

NoInst == [model |-> Null, id |-> 0, hasMeta |-> FALSE, user |-> Null,
           unres |-> FALSE]

\* an instance as the ORM builds it, with no metadata put on it
WithoutMeta(model, id, src) ==
    [model |-> model, id |-> id, hasMeta |-> FALSE, user |-> Null,
     unres |-> FALSE]

\* an instance carrying the metadata of the object it was obtained from
\* (wrap_query_set_iterator, wrap_getitem, wrap_descriptor_get)
WithMetaOf(model, id, src) ==
    [model |-> model, id |-> id, hasMeta |-> src.hasMeta,
     user |-> IF src.hasMeta THEN src.user ELSE Null,
     unres |-> IF src.hasMeta THEN src.unres ELSE FALSE]

\* ForeignRelatedObjectsDescriptor.__get__ and wrap_get_query_set: the
\* related manager's queryset with the instance's metadata.
RelatedQuerySet(i) ==
    LET q == [NewQuerySet("D") EXCEPT !.pks = Related(i.id)]
    IN IF i.hasMeta
       THEN [q EXCEPT !.hasMeta = TRUE, !.user = i.user, !.unres = i.unres]
       ELSE q

----------------------------------------------------------------------------
(* State *)

SettingsSet == [unsharedPublic : BOOLEAN, noRelatedVisible : BOOLEAN]

\* The databases the rule evaluator is checked on: any owner, sharing and
\* parent of every record, "a" in g1 or in no group, "b" in g2 and possibly
\* a superuser or (g2 being a supergroup) a supergroup member.
RuleDBs ==
    [owner : [DIds -> {Null, "a"}],
     groups : [DIds -> {{}, {"g1"}}],
     parent : [DIds -> {0, 1}],
     rowner : {[r \in RIds |-> Null]},
     members : {[g \in Groups |-> IF g = "g1" THEN m ELSE {"b"}] :
                   m \in {{}, {"a"}}},
     supergroup : {[g \in Groups |-> g = "g2" /\ s] : s \in BOOLEAN},
     superusers : {{}, {"b"}}]

\* The databases the interceptor is checked on: "a" is in g1, "b" in g2,
\* nobody is privileged; record 1 is owned by "a" and shared with g1, the
\* other records are unowned and shared with g2 or unshared; all are
\* children of record 1 of the delegated type.
MachineDBs ==
    {d \in [owner : [DIds -> {Null, "a"}],
            groups : [DIds -> {{}, {"g1"}, {"g2"}}],
            parent : [DIds -> {0, 1}],
            rowner : {[r \in RIds |-> Null]},
            members : {[g \in Groups |-> IF g = "g1" THEN {"a"} ELSE {"b"}]},
            supergroup : {[g \in Groups |-> FALSE]},
            superusers : {{}}] :
        /\ d.owner[1] = "a" /\ d.groups[1] = {"g1"} /\ d.parent[1] = 1
        /\ \A r \in DIds \ {1} :
              /\ d.owner[r] = Null
              /\ d.groups[r] # {"g1"}
              /\ d.parent[r] = 1}

NoOut ==
    [op |-> "none", pre |-> NoQuery, amb |-> Null, unique |-> FALSE,
     key |-> 0, res |-> {}, err |-> Null, applied |-> <<>>, src |-> NoInst]

Held == qs.model # Null

\* Two queryset objects, q and the queryset d obtained from it, with the
\* dictionaries their _access_control_meta attributes refer to:
\*   metas    the dictionaries, by slot
\*   q, d     the slot the attribute of the object refers to (0: the object
\*            has no such attribute)
\*   hasQ, hasD   the object exists
\*   same     d is the very object q
\*   op, arg, before   the last call on q, its argument, and the metadata q
\*            had when the call was made
MetaSlots == 1..2

EmptyMeta == [has |-> FALSE, user |-> Null, unres |-> FALSE]

AliasIdle ==
    [metas |-> [i \in MetaSlots |-> [user |-> Null, unres |-> FALSE]],
     q |-> 0, d |-> 0, hasQ |-> FALSE, hasD |-> FALSE, same |-> FALSE,
     op |-> "none", arg |-> Null, before |-> EmptyMeta]

\* getattr(obj, '_access_control_meta', absent)
MetaAt(a, ref) ==
    IF ref = 0 THEN EmptyMeta
    ELSE [has |-> TRUE, user |-> a.metas[ref].user,
          unres |-> a.metas[ref].unres]

\* a slot for a new dictionary: one that the object not being assigned to
\* does not refer to
NewSlot(other) == CHOOSE i \in MetaSlots : i # other

\* The worker threads.  For each thread:
\*   user    _storage.access_control_user as the thread sees it
\*   last    the value the thread itself last stored (None before)
\*   phase   "idle", or where the request it handles is: "view" after
\*           process_request, "response" when the view has returned,
\*           "failed" when the view has raised
\*   req     request.user of the request being handled
Threads == {"t1", "t2"}

ThreadsIdle ==
    [t \in Threads |->
        [user |-> Null, last |-> Null, phase |-> "idle", req |-> Null]]

\* a store that is one attribute of the module, shared by all threads
set_access_control_user_shared(st, t, user) ==
    [x \in Threads |-> [st[x] EXCEPT !.user = user]]

\* set_access_control_user, running in thread t: an attribute of the
\* thread-local object
set_access_control_user(st, t, user) ==
    [st EXCEPT ![t].user = user]

\* get_access_control_user, running in thread t
get_access_control_user(st, t) == st[t].user

\* The AccessGroup table and one record of a directly controlled type:
\*   exists   the groups that have been created
\*   cbsw     can_be_shared_with of each group
\*   csw      can_share_with of each group
\*   auto     auto_share_groups of each group
\*   members  members of each group
\*   rec      the record: whether it exists, its owner, its access_groups
\*   last     the last save of the record: the operation, and the
\*            access_groups the record had before it
ShareGroups == {"g1", "g2", "g3", "g4"}

NoRecord == [exists |-> FALSE, owner |-> Null, groups |-> {}]

GroupsIdle ==
    [exists |-> {},
     cbsw |-> [g \in ShareGroups |-> TRUE],
     csw |-> [g \in ShareGroups |-> {}],
     auto |-> [g \in ShareGroups |-> {}],
     members |-> [g \in ShareGroups |-> {}],
     rec |-> NoRecord,
     last |-> [op |-> "none", before |-> {}]]

\* populate_sharing(sender, instance, created): the post_save handler of the
\* group model, for the saved group x of the table gd
populate_sharing(gd, x) ==
    LET looped == [g \in ShareGroups |->
                      IF g \notin gd.exists THEN gd.csw[g]
                      ELSE IF gd.cbsw[x] THEN gd.csw[g] \cup {x}
                      ELSE gd.csw[g] \ {x}]
    IN [gd EXCEPT !.csw = [looped EXCEPT ![x] = @ \cup {x}]]

\* the groups that own records and share them automatically, and the groups
\* they can be set to share with
OwnerGroups == {"g1", "g2"}
AutoGroups == {"g1", "g2", "g3"}

\* the table after AccessGroup.objects.create(name=g) for each g of
\* AutoGroups in turn
GroupsReady ==
    LET create(gd, g) == populate_sharing([gd EXCEPT !.exists = @ \cup {g}], g)
    IN create(create(create(GroupsIdle, "g1"), "g2"), "g3")

\* process_auto_share_groups(sender, instance, created) with every save
\* taken for a creation
process_auto_share_groups_on_every_save(gd, created) ==
    IF gd.rec.owner = Null THEN gd
    ELSE [gd EXCEPT !.rec.groups =
            @ \cup UNION {gd.auto[g] :
                            g \in {h \in gd.exists :
                                      gd.rec.owner \in gd.members[h]}}]

\* process_auto_share_groups(sender, instance, created): the post_save
\* handler of a directly controlled type, for the record of the table gd.
\* The type has an owner field and the group model auto_share_groups.
process_auto_share_groups(gd, created) ==
    IF ~created THEN gd
    ELSE IF gd.rec.owner = Null THEN gd
    ELSE [gd EXCEPT !.rec.groups =
            @ \cup UNION {gd.auto[g] :
                            g \in {h \in gd.exists :
                                      gd.rec.owner \in gd.members[h]}}]

\* The types of the registry: M and U are concrete, P1 is a proxy of M and
\* P2 a proxy of P1.
RegTypes == {"M", "P1", "P2", "U"}

\* model._meta.proxy
IsProxy(model) == model \in {"P1", "P2"}

\* the class a proxy class derives from
ProxyBase(model) == IF model = "P2" THEN "P1" ELSE "M"

\* model._meta.concrete_model
concrete_model(model) == IF IsProxy(model) THEN "M" ELSE model

\* The registry:
\*   registered  _registered_models
\*   auto        _auto_filter_models
\*   hooks       _unrestricted_access_hooks (<< >> where the key is absent)
\*   attrs       what register and register_proxy added to each class
\*   flat        whether the framework sets _meta.proxy_for_model of a proxy
\*               of a proxy to the concrete class rather than to the proxy it
\*               derives from
\*   last        the last call of register: its type, whether the type was
\*               registered, and the registry before the call
RegistrySnapshot(reg) ==
    [registered |-> reg.registered, auto |-> reg.auto, hooks |-> reg.hooks]

RegistryIdle ==
    [registered |-> {},
     auto |-> {},
     hooks |-> [t \in RegTypes |-> << >>],
     attrs |-> [t \in RegTypes |-> {}],
     flat |-> FALSE,
     last |-> [op |-> "none", model |-> Null, was |-> FALSE,
               before |-> [registered |-> {}, auto |-> {},
                           hooks |-> [t \in RegTypes |-> << >>]]]]

\* model._meta.proxy_for_model
proxy_for_model(reg, model) ==
    IF reg.flat THEN concrete_model(model) ELSE ProxyBase(model)

\* _get_registered_model_for_model(model); Null is None
_get_registered_model_for_model(reg, model) ==
    IF model \in reg.registered THEN model
    ELSE IF IsProxy(model) /\ proxy_for_model(reg, model) \in reg.registered
         THEN concrete_model(model)
    ELSE Null

\* is_registered_model(model), on the registry reg
is_registered_model_in(reg, model) ==
    _get_registered_model_for_model(reg, model) \in reg.registered

\* is_auto_filtered(model), on the registry reg
is_auto_filtered_in(reg, model) ==
    _get_registered_model_for_model(reg, model) \in reg.auto

\* get_unrestricted_access_hooks(model), on the registry reg; the lookup of
\* the key None raises
get_unrestricted_access_hooks_in(reg, model) ==
    IF _get_registered_model_for_model(reg, model) = Null THEN <<"KeyError">>
    ELSE reg.hooks[_get_registered_model_for_model(reg, model)]

\* _filter_for_access_control's decision to filter a query of the type for
\* an actor: one bound to the query (explicit), or else the ambient one
filters_queries(reg, model, explicit) ==
    /\ is_registered_model_in(reg, model)
    /\ explicit \/ is_auto_filtered_in(reg, model)

\* the options of a call of register
RegisterOptions ==
    {[auto_filter |-> TRUE, hooks |-> << >>, owner |-> TRUE,
      control_relation |-> FALSE],
     [auto_filter |-> FALSE, hooks |-> <<"hook">>, owner |-> TRUE,
      control_relation |-> FALSE],
     [auto_filter |-> TRUE, hooks |-> <<"hook">>, owner |-> FALSE,
      control_relation |-> TRUE],
     [auto_filter |-> TRUE, hooks |-> << >>, owner |-> TRUE,
      control_relation |-> TRUE],
     [auto_filter |-> FALSE, hooks |-> << >>, owner |-> FALSE,
      control_relation |-> FALSE]}

\* register(model, ...) without the return for a registered type
register_again(reg, model, o) ==
    [reg EXCEPT
        !.registered = @ \cup {model},
        !.hooks[model] = <<"_is_superuser">> \o o.hooks,
        !.auto = IF o.auto_filter THEN @ \cup {model} ELSE @,
        !.attrs[model] =
            @ \cup (IF o.owner THEN {"owner"} ELSE {})
              \cup (IF o.control_relation THEN {"access_control_relation"}
                                          ELSE {"access_groups"})]

\* register(model, control_relation, unrestricted_manager, auto_filter,
\* owner, unrestricted_access_hooks, queryset)
register(reg, model, o) ==
    IF is_registered_model_in(reg, model) THEN reg
    ELSE [reg EXCEPT
            !.registered = @ \cup {model},
            !.hooks[model] = <<"_is_superuser">> \o o.hooks,
            !.auto = IF o.auto_filter THEN @ \cup {model} ELSE @,
            !.attrs[model] =
                @ \cup (IF o.owner THEN {"owner"} ELSE {})
                  \cup (IF o.control_relation THEN {"access_control_relation"}
                                              ELSE {"access_groups"})]

----------------------------------------------------------------------------
(* Users and profiles (registronapi/models.py, registronapi/views.py) *)

MaxUsers == 2       \* users ever created
MaxProfiles == 3    \* profiles ever created

UserIds == 1..MaxUsers
Emails == {"e1", "e2"}
ProfileTexts == {"", "IT"}

\* no Profile object (the reverse accessor is not cached)
NoProfile == [pk |-> 0, user |-> 0, department |-> "", full_name |-> ""]

\* no User object held by a request
NoUser == [uid |-> 0, email |-> Null, profile |-> NoProfile]

\* The tables auth_user and registronapi_profile and the User object a
\* user_update request works on:
\*   users      the e-mail of each user row by id (None: no such row)
\*   nextuid, nextpk   the next keys of the two tables
\*   profiles   the Profile rows; user is unique (OneToOneField)
\*   held       the User object of the request, with its cached profile
\*   last       the last handler that wrote: the user, the exception that
\*              left it, whether the first save found the row, and the keys
\*              of the profiles the user had before
AccountsIdle ==
    [users |-> [u \in UserIds |-> Null],
     nextuid |-> 1,
     nextpk |-> 1,
     profiles |-> {},
     held |-> NoUser,
     last |-> [op |-> "none", uid |-> 0, err |-> Null, existed |-> FALSE,
               before |-> {}]]

\* Profile.objects.filter(user=uid)
ProfilesOf(acc, uid) == {p \in acc.profiles : p.user = uid}

\* an operation on the tables: the tables after it, the User object after
\* it and the exception it raised
Done(acc, instance, err) == [acc |-> acc, inst |-> instance, err |-> err]

\* Profile.objects.create(user=instance): the unique user column refuses a
\* second row for the user; the new object becomes instance.profile
Profile_objects_create(acc, instance) ==
    IF ProfilesOf(acc, instance.uid) # {}
    THEN Done(acc, instance, "IntegrityError")
    ELSE LET row == [pk |-> acc.nextpk, user |-> instance.uid,
                     department |-> "", full_name |-> ""]
         IN Done([acc EXCEPT !.profiles = @ \cup {row}, !.nextpk = @ + 1],
                 [instance EXCEPT !.profile = row], Null)

\* Profile.save(): UPDATE by key, and INSERT when no row has the key
Profile_save(acc, profile) ==
    IF \E p \in acc.profiles : p.pk = profile.pk
    THEN Done([acc EXCEPT !.profiles =
                  {p \in @ : p.pk # profile.pk} \cup {profile}], NoUser, Null)
    ELSE IF ProfilesOf(acc, profile.user) # {}
    THEN Done(acc, NoUser, "IntegrityError")
    ELSE Done([acc EXCEPT !.profiles = @ \cup {profile}], NoUser, Null)

\* the receiver without its test of created
update_user_profile_on_every_save(acc, instance, created) ==
    Profile_objects_create(acc, instance)

\* update_user_profile(sender, instance, created)
update_user_profile(acc, instance, created) ==
    IF created THEN Profile_objects_create(acc, instance)
    ELSE Done(acc, instance, Null)

\* salvar_perfil(sender, instance, created): instance.profile.save(), every
\* exception swallowed
salvar_perfil(acc, instance, created) ==
    LET cached == instance.profile # NoProfile
        rows == ProfilesOf(acc, instance.uid)
        profile == IF cached THEN instance.profile ELSE CHOOSE p \in rows : TRUE
    IN IF ~cached /\ rows = {} THEN Done(acc, instance, Null)
       ELSE LET r == Profile_save(acc, profile)
            IN Done(IF r.err = Null THEN r.acc ELSE acc,
                    [instance EXCEPT !.profile = profile], Null)

\* User.save(): UPDATE by key, INSERT when no row has the key, and then
\* post_save with created = the row was inserted; the receivers run in the
\* order they were connected and an exception of one ends the send
User_save(acc, instance) ==
    LET created == acc.users[instance.uid] = Null
        saved == [acc EXCEPT !.users[instance.uid] = instance.email]
        r1 == update_user_profile(saved, instance, created)
    IN IF r1.err # Null THEN r1
       ELSE salvar_perfil(r1.acc, r1.inst, created)

\* a step of a handler after the steps before it: skipped once an
\* exception has left the handler
Then(r, cond, instance) ==
    IF r.err # Null \/ ~cond THEN r
    ELSE User_save(r.acc, instance)

\* views.register on POST: create_user, save, the profile fields, save
register_user(acc, email, department, full_name) ==
    LET uid == acc.nextuid
        r1 == User_save([acc EXCEPT !.nextuid = @ + 1],
                        [uid |-> uid, email |-> email, profile |-> NoProfile])
        r2 == Then(r1, TRUE, r1.inst)
        r3 == Then(r2, TRUE,
                   [r2.inst EXCEPT !.profile.department = department,
                                   !.profile.full_name = full_name])
    IN r3

\* views.user_update on POST: a save after each field that was given
user_update(acc, instance, email, full_name, department) ==
    LET r0 == Done(acc, instance, Null)
        r1 == Then(r0, email # "", [instance EXCEPT !.email = email])
        r2 == Then(r1, full_name # "",
                   [r1.inst EXCEPT !.profile.full_name = full_name])
        r3 == Then(r2, department # "",
                   [r2.inst EXCEPT !.profile.department = department])
    IN r3

\* user.delete(): the row and, by on_delete=CASCADE, its profiles
user_delete(acc, uid) ==
    [acc EXCEPT !.users[uid] = Null,
                !.profiles = {p \in @ : p.user # uid}]

----------------------------------------------------------------------------
(* Departments (registrondeparts/views.py, registronapi/decorator.py) *)

MaxDeparts == 3     \* departments ever created

DepartNames == {"IT", "HR"}
Methods == {"GET", "POST"}
Reqs == {"r1", "r2"}    \* requests handled at the same time

\* request.user of a request: whether it is authenticated, and its groups
\* in the order request.user.groups.all() returns them
RequestUsers ==
    {[auth |-> FALSE, groups |-> << >>],
     [auth |-> TRUE, groups |-> << >>],
     [auth |-> TRUE, groups |-> <<"User">>],
     [auth |-> TRUE, groups |-> <<"Administrator">>],
     [auth |-> TRUE, groups |-> <<"User", "Administrator">>],
     [auth |-> TRUE, groups |-> <<"Administrator", "User">>]}

\* The table registrondeparts_department and the requests under way:
\*   rows     the Department rows; department_name is not unique
\*   nextid   the next key
\*   reqs     for each request "idle", or "looked" when the lookup of
\*            get_or_create has found no row of the name and the INSERT
\*            has not been made yet
\*   last     the last handler that answered: the view, the method, the
\*            user, whether the view function ran, the exception that left
\*            it and the rows before it
DepartsIdle ==
    [rows |-> {},
     nextid |-> 1,
     reqs |-> [r \in Reqs |-> [phase |-> "idle", name |-> Null]],
     last |-> [op |-> "none", method |-> Null,
               user |-> [auth |-> FALSE, groups |-> << >>],
               ran |-> FALSE, err |-> Null, before |-> {}]]

\* login_required: the view is called for an authenticated user only
login_required(user) == user.auth

\* allowed_users(allowed_groups): the name of the first group of the user,
\* None without groups, is among the allowed ones
allowed_users(user, allowed_groups) ==
    LET group == IF Len(user.groups) > 0 THEN user.groups[1] ELSE Null
    IN group \in allowed_groups

\* the two decorators of register_depart and department_delete
ViewRuns(user) == login_required(user) /\ allowed_users(user, {"Administrator"})

\* Department.objects.filter(department_name=name)
DepartsNamed(dep, name) == {d \in dep.rows : d.name = name}

\* the lookup of get_or_create: "found" with one row of the name,
\* "create" with none, MultipleObjectsReturned with more
get_or_create_lookup(dep, name) ==
    LET n == Cardinality(DepartsNamed(dep, name))
    IN IF n = 1 THEN "found"
       ELSE IF n = 0 THEN "create"
       ELSE "MultipleObjectsReturned"

\* the INSERT of get_or_create
create_department(dep, name) ==
    [dep EXCEPT !.rows = @ \cup {[id |-> dep.nextid, name |-> name]},
                !.nextid = @ + 1]

\* The extra unrestricted-access hooks each type was registered with, and
\* the last run of the hook loop of the rule evaluator:
\*   extras     unrestricted_access_hooks of register(model, ...), by type
\*   op         "rules" after a run
\*   model, user   the queried type and the actor
\*   holds      the extra hooks that return true for the actor
\*   target     the type whose hooks were looked up (None: none were)
\*   consulted  the hooks that were called, in the order of the calls
\*   rules      the Q object returned
HookConfigs ==
    {[D |-> <<"d_hook">>, R |-> <<"r_hook">>],
     [D |-> <<"d_hook", "d_hook2">>, R |-> << >>],
     [D |-> << >>, R |-> <<"r_hook">>]}

ExtraHooks == {"d_hook", "d_hook2", "r_hook"}

HookrunIdle ==
    [extras |-> [D |-> << >>, R |-> << >>], op |-> "none", model |-> Null,
     user |-> Null, holds |-> {}, target |-> Null, consulted |-> << >>,
     rules |-> {}]

\* _unrestricted_access_hooks[model] as register left it
unrestricted_access_hooks(extras, model) == <<"is_superuser">> \o extras[model]

\* func(user) for a hook of the list
HookReturns(hook, user, holds) == HookHolds(hook, user) \/ hook \in holds

\* the hooks "for func in hooks: if func(user): return" calls
ConsultedHooks(hooks, user, holds) ==
    LET hits == {i \in 1..Len(hooks) : HookReturns(hooks[i], user, holds)}
    IN IF hits = {} THEN hooks
       ELSE SubSeq(hooks, 1, CHOOSE i \in hits : \A j \in hits : i <= j)

\* _get_accessible_by_user_filter_rules(user) on a queryset of the type,
\* with the hooks it calls
filter_rules_with_hooks(run, model, user, holds) ==
    IF ~IsAuthenticated(user)
    THEN [run EXCEPT !.op = "rules", !.model = model, !.user = user,
                     !.holds = holds, !.target = Null, !.consulted = << >>,
                     !.rules = FilterRules(model, user)]
    ELSE LET target == _get_control_relation_model(model)
             hooks == unrestricted_access_hooks(run.extras, target)
             called == ConsultedHooks(hooks, user, holds)
         IN [run EXCEPT !.op = "rules", !.model = model, !.user = user,
                        !.holds = holds, !.target = target,
                        !.consulted = called,
                        !.rules =
                            IF HookReturns(called[Len(called)], user, holds)
                            THEN {}
                            ELSE FilterRules(model, user)]

AuxInit ==
    /\ alias = AliasIdle
    /\ threads = ThreadsIdle
    /\ groupdb = GroupsIdle
    /\ registry = RegistryIdle
    /\ hookrun = HookrunIdle
    /\ accounts = AccountsIdle
    /\ departs = DepartsIdle

\* one database and one configuration, for the parts of the program that
\* read neither
InitFixed ==
    /\ db = CHOOSE d \in MachineDBs : \A r \in DIds \ {1} : d.groups[r] = {}
    /\ settings = [unsharedPublic |-> FALSE, noRelatedVisible |-> TRUE]
    /\ ambient = Null
    /\ qs = NoQuery
    /\ inst = NoInst
    /\ out = NoOut
    /\ AuxInit

Init ==
    /\ db \in MachineDBs
    /\ settings \in SettingsSet
    /\ ambient = Null
    /\ qs = NoQuery
    /\ inst = NoInst
    /\ out = NoOut
    /\ AuxInit

----------------------------------------------------------------------------
(* Building querysets: qs = ... *)

\* Model.objects.all(): Manager.get_query_set()
ManagerAll(model) ==
    /\ qs' = NewQuerySet(model)
    /\ out' = NoOut
    /\ UNCHANGED <<aux, db, settings, ambient, inst>>

\* Model.objects_unrestricted.all(): the manager register() adds for
\* unrestricted_manager carries {'user': None, 'unrestricted': True}, which
\* wrap_get_query_set puts on the queryset
ManagerUnrestricted(model) ==
    /\ qs' = [NewQuerySet(model) EXCEPT !.hasMeta = TRUE, !.unres = TRUE]
    /\ out' = NoOut
    /\ UNCHANGED <<aux, db, settings, ambient, inst>>

\* AccessManagerMixin.accessible_by_user
ManagerAccessibleByUser(model, user) ==
    /\ qs' = accessible_by_user(NewQuerySet(model), user)
    /\ out' = NoOut
    /\ UNCHANGED <<aux, db, settings, ambient, inst>>

\* QuerySetMixin.accessible_by_user on the queryset the caller holds
QuerySetAccessibleByUser(user) ==
    /\ Held
    /\ qs' = accessible_by_user(qs, user)
    /\ out' = NoOut
    /\ UNCHANGED <<aux, db, settings, ambient, inst>>

\* qs = qs.unrestricted()
Unrestricted ==
    /\ Held
    /\ qs' = unrestricted(qs)
    /\ out' = NoOut
    /\ UNCHANGED <<aux, db, settings, ambient, inst>>

\* qs = qs.filter(pk=k), or qs = qs.all() for k = 0
Filter(k) ==
    /\ Held
    /\ ~qs.none
    /\ k # 0 => can_filter(qs)
    /\ qs' = IF k = 0 THEN clone_queryset(qs)
             ELSE [clone_queryset(qs) EXCEPT !.pks = @ \cap {k}]
    /\ out' = NoOut
    /\ UNCHANGED <<aux, db, settings, ambient, inst>>

----------------------------------------------------------------------------
(* Database operations on the queryset the caller holds *)

Record(op, unique, key, o) ==
    [op |-> op, pre |-> qs, amb |-> ambient, unique |-> unique,
     key |-> key, res |-> o.res, err |-> o.err, applied |-> o.applied,
     src |-> NoInst]

\* qs.count(), qs.aggregate(...)
Read(op) ==
    /\ Held
    /\ LET o == DirectRead(qs, ambient, FALSE)
       IN /\ qs' = o.self
          /\ out' = Record(op, FALSE, 0, o)
    /\ UNCHANGED <<aux, db, settings, ambient, inst>>

\* qs.count() while a hook of the type raises
ReadRulesFail(exc) ==
    /\ Held
    /\ LET o == DirectReadRulesFail(qs, ambient, exc)
       IN /\ qs' = o.self
          /\ out' = Record("count", FALSE, 0, o)
    /\ UNCHANGED <<aux, db, settings, ambient, inst>>

\* qs.exists(), inside Model._perform_unique_checks (unique) or not
Exists(unique) ==
    /\ Held
    /\ LET o == DirectRead(qs, ambient, unique)
       IN /\ qs' = o.self
          /\ out' = Record("exists", unique, 0, o)
    /\ UNCHANGED <<aux, db, settings, ambient, inst>>

\* for obj in qs.iterator(); keep: the caller keeps one of the objects
Iterate(keep) ==
    /\ Held
    /\ LET o == DirectRead(qs, ambient, FALSE)
       IN /\ qs' = o.self
          /\ out' = Record("iterator", FALSE, 0, o)
          /\ IF keep /\ o.res # {}
             THEN \E r \in o.res : inst' = WithMetaOf(qs.model, r, qs)
             ELSE inst' = inst
    /\ UNCHANGED <<aux, db, settings, ambient>>

\* qs.get(pk=k); key 0 is the key of no row
GetOne(k, keep) ==
    /\ Held
    /\ LET o == Get(qs, ambient, k)
       IN /\ qs' = o.self
          /\ out' = Record("get", FALSE, k, o)
          /\ IF keep /\ o.res # {}
             THEN inst' = WithMetaOf(qs.model, k, qs)
             ELSE inst' = inst
    /\ UNCHANGED <<aux, db, settings, ambient>>

\* qs[0]
GetItem(keep) ==
    /\ Held
    /\ LET o == Index(qs, ambient)
       IN /\ qs' = o.self
          /\ out' = Record("getitem", FALSE, 0, o)
          /\ IF keep /\ o.res # {}
             THEN \E r \in o.res : inst' = WithMetaOf(qs.model, r, qs)
             ELSE inst' = inst
    /\ UNCHANGED <<aux, db, settings, ambient>>

\* qs = qs[0:1]
GetSlice ==
    /\ Held
    /\ LET o == Slice(qs, ambient)
       IN /\ qs' = IF o.err # Null THEN o.self ELSE o.item
          /\ out' = [NoOut EXCEPT !.op = "slice", !.pre = qs,
                                  !.amb = ambient, !.err = o.err]
    /\ UNCHANGED <<aux, db, settings, ambient, inst>>

\* qs.latest('id')
GetLatest ==
    /\ Held
    /\ LET o == Latest(qs, ambient)
       IN /\ qs' = o.self
          /\ out' = Record("latest", FALSE, 0, o)
    /\ UNCHANGED <<aux, db, settings, ambient, inst>>

\* qs.in_bulk(all keys of the type)
GetInBulk ==
    /\ Held
    /\ LET o == InBulk(qs, ambient, Ids(qs.model))
       IN /\ qs' = o.self
          /\ out' = Record("in_bulk", FALSE, 0, o)
    /\ UNCHANGED <<aux, db, settings, ambient, inst>>

----------------------------------------------------------------------------
(* Relationship navigation from the instance the caller holds *)

\* for child in inst.accessrestrictedmodel_set.all().iterator()
RelatedSet ==
    /\ inst.model = "R"
    /\ LET rq == RelatedQuerySet(inst)
           o == DirectRead(rq, ambient, FALSE)
       IN /\ out' = [op |-> "related_set", pre |-> rq, amb |-> ambient,
                     unique |-> FALSE, key |-> 0, res |-> o.res,
                     err |-> o.err, applied |-> o.applied, src |-> inst]
          /\ IF o.res = {} THEN inst' = inst
             ELSE \E r \in o.res : inst' = WithMetaOf("D", r, rq)
    /\ UNCHANGED <<aux, db, settings, ambient, qs>>

\* inst.parent: ReverseSingleRelatedObjectDescriptor.__get__ fetches the
\* row with get() on a new queryset, then receives the instance's metadata
RelatedObject ==
    /\ inst.model = "D"
    /\ LET p == db.parent[inst.id]
           o == IF p = 0
                THEN Outcome(NoQuery, {}, Null, NoQuery)
                ELSE Get(NewQuerySet("R"), ambient, p)
       IN /\ out' = [op |-> "related_object", pre |-> NewQuerySet("R"),
                     amb |-> ambient, unique |-> FALSE, key |-> p,
                     res |-> o.res, err |-> o.err, applied |-> o.applied,
                     src |-> inst]
          /\ IF o.res = {} THEN inst' = inst
             ELSE inst' = WithMetaOf("R", p, inst)
    /\ UNCHANGED <<aux, db, settings, ambient, qs>>

----------------------------------------------------------------------------
(* Access context store (middleware.py) *)

\* DjangoGroupAccessMiddleware.process_request
process_request(user) ==
    /\ ambient' = user
    /\ out' = NoOut
    /\ UNCHANGED <<aux, db, settings, qs, inst>>

\* DjangoGroupAccessMiddleware.process_response
process_response ==
    /\ ambient' = Null
    /\ out' = NoOut
    /\ UNCHANGED <<aux, db, settings, qs, inst>>

----------------------------------------------------------------------------
(* Queryset objects and the metadata dictionaries they share *)

\* q = Model.objects.all()
AliasManagerAll ==
    /\ alias' = [AliasIdle EXCEPT !.hasQ = TRUE, !.op = "all"]
    /\ UNCHANGED notAlias

\* q = Model.objects.accessible_by_user(user): a new queryset, a new dictionary
AliasManagerAccessibleByUser(user) ==
    /\ alias' = [AliasIdle EXCEPT !.hasQ = TRUE, !.q = 1,
                                  !.metas[1] = [user |-> user, unres |-> FALSE],
                                  !.op = "manager_accessible_by_user",
                                  !.arg = user]
    /\ UNCHANGED notAlias

\* d = q.all(): wrap_query_set_clone hands the clone the dictionary of q
AliasClone ==
    /\ alias.hasQ
    /\ alias' = [alias EXCEPT !.d = alias.q, !.hasD = TRUE, !.same = FALSE,
                              !.op = "clone", !.arg = Null,
                              !.before = MetaAt(alias, alias.q)]
    /\ UNCHANGED notAlias

\* unrestricted() changing the dictionary the clone shares with q
AliasUnrestrictedInPlace ==
    /\ alias.hasQ
    /\ LET slot == IF alias.q = 0 THEN NewSlot(0) ELSE alias.q
       IN alias' = [alias EXCEPT
                       !.metas[slot] = [user |-> Null, unres |-> TRUE],
                       !.d = slot, !.hasD = TRUE, !.same = FALSE,
                       !.op = "unrestricted", !.arg = Null,
                       !.before = MetaAt(alias, alias.q)]
    /\ UNCHANGED notAlias

\* d = q.unrestricted(): a clone, whose dictionary is a changed copy
AliasUnrestricted ==
    /\ alias.hasQ
    /\ LET slot == NewSlot(alias.q)
       IN alias' = [alias EXCEPT
                       !.metas[slot] = [user |-> Null, unres |-> TRUE],
                       !.d = slot, !.hasD = TRUE, !.same = FALSE,
                       !.op = "unrestricted", !.arg = Null,
                       !.before = MetaAt(alias, alias.q)]
    /\ UNCHANGED notAlias

\* d = q.accessible_by_user(user): a new dictionary on q, and q is returned
AliasAccessibleByUser(user) ==
    /\ alias.hasQ
    /\ LET slot == NewSlot(0)
       IN alias' = [alias EXCEPT
                       !.metas[slot] = [user |-> user, unres |-> FALSE],
                       !.q = slot, !.d = slot, !.hasD = TRUE, !.same = TRUE,
                       !.op = "accessible_by_user", !.arg = user,
                       !.before = MetaAt(alias, alias.q)]
    /\ UNCHANGED notAlias

\* d.accessible_by_user(user) on the derived queryset
AliasDerivedAccessibleByUser(user) ==
    /\ alias.hasD
    /\ LET slot == IF alias.same THEN NewSlot(0) ELSE NewSlot(alias.q)
       IN alias' = [alias EXCEPT
                       !.metas[slot] = [user |-> user, unres |-> FALSE],
                       !.d = slot,
                       !.q = IF alias.same THEN slot ELSE @,
                       !.op = "derived_accessible_by_user", !.arg = user,
                       !.before = MetaAt(alias, alias.q)]
    /\ UNCHANGED notAlias

\* q = d: the caller goes on with the derived queryset
AliasKeepDerived ==
    /\ alias.hasD
    /\ alias' = [alias EXCEPT !.q = alias.d, !.d = 0, !.hasD = FALSE,
                              !.same = FALSE, !.op = "none", !.arg = Null,
                              !.before = EmptyMeta]
    /\ UNCHANGED notAlias

----------------------------------------------------------------------------
(* Requests on worker threads *)

\* DjangoGroupAccessMiddleware.process_request(request) in thread t
ThreadProcessRequest(t, user) ==
    /\ threads[t].phase = "idle"
    /\ threads' = [set_access_control_user(threads, t, user) EXCEPT
                      ![t].last = user, ![t].phase = "view", ![t].req = user]
    /\ UNCHANGED notThreads

\* the view runs in thread t and returns a response or raises
ThreadView(t, raises) ==
    /\ threads[t].phase = "view"
    /\ threads' = [threads EXCEPT
                      ![t].phase = IF raises THEN "failed" ELSE "response"]
    /\ UNCHANGED notThreads

\* DjangoGroupAccessMiddleware.process_response(request, response) in
\* thread t, on the response of the view or on the error response the
\* framework made of the exception
ThreadProcessResponse(t) ==
    /\ threads[t].phase \in {"response", "failed"}
    /\ threads' = [set_access_control_user(threads, t, Null) EXCEPT
                      ![t].last = Null, ![t].phase = "idle", ![t].req = Null]
    /\ UNCHANGED notThreads

\* The exception of the view leaves the request handling of thread t
\* without the response hooks being run: the middleware has neither a
\* process_exception hook nor a try/finally of its own.
ThreadExceptionPropagates(t) ==
    /\ threads[t].phase = "failed"
    /\ threads' = [threads EXCEPT ![t].phase = "idle", ![t].req = Null]
    /\ UNCHANGED notThreads

----------------------------------------------------------------------------
(* Access groups and their sharing lists (models.py) *)

\* group_model.objects.create(name=g, can_be_shared_with=shareable)
GroupCreate(g, shareable) ==
    /\ g \notin groupdb.exists
    /\ groupdb' = populate_sharing(
                     [groupdb EXCEPT !.exists = @ \cup {g},
                                     !.cbsw[g] = shareable], g)
    /\ UNCHANGED notGroupdb

\* group.save() of an existing group with nothing changed
GroupSave(g) ==
    /\ g \in groupdb.exists
    /\ groupdb' = populate_sharing(groupdb, g)
    /\ UNCHANGED notGroupdb

\* group.can_be_shared_with = not group.can_be_shared_with; group.save()
GroupToggle(g) ==
    /\ g \in groupdb.exists
    /\ groupdb' = populate_sharing(
                     [groupdb EXCEPT !.cbsw[g] = ~groupdb.cbsw[g]], g)
    /\ UNCHANGED notGroupdb

\* group.members.add(user)
GroupAddMember(g, user) ==
    /\ g \in groupdb.exists
    /\ groupdb' = [groupdb EXCEPT !.members[g] = @ \cup {user},
                                  !.last = [op |-> "none", before |-> {}]]
    /\ UNCHANGED notGroupdb

\* group.auto_share_groups.add(h): the relation is to 'self' and symmetrical
GroupAddAutoShare(g, h) ==
    /\ g \in groupdb.exists
    /\ h \in groupdb.exists
    /\ groupdb' = [groupdb EXCEPT
                     !.auto = [x \in ShareGroups |->
                                 IF x = g /\ x = h THEN @[x] \cup {g}
                                 ELSE IF x = g THEN @[x] \cup {h}
                                 ELSE IF x = h THEN @[x] \cup {g}
                                 ELSE @[x]],
                     !.last = [op |-> "none", before |-> {}]]
    /\ UNCHANGED notGroupdb

\* Model.objects.create(owner=owner) of a directly controlled type
RecordCreate(owner) ==
    /\ ~groupdb.rec.exists
    /\ groupdb' = process_auto_share_groups(
                     [groupdb EXCEPT
                        !.rec = [exists |-> TRUE, owner |-> owner,
                                 groups |-> {}],
                        !.last = [op |-> "create", before |-> {}]], TRUE)
    /\ UNCHANGED notGroupdb

\* record.owner = owner; record.save() of the existing record
RecordSave(owner) ==
    /\ groupdb.rec.exists
    /\ groupdb' = process_auto_share_groups(
                     [groupdb EXCEPT
                        !.rec.owner = owner,
                        !.last = [op |-> "save",
                                  before |-> groupdb.rec.groups]], FALSE)
    /\ UNCHANGED notGroupdb

\* record.access_groups.add(g)
RecordShare(g) ==
    /\ groupdb.rec.exists
    /\ g \in groupdb.exists
    /\ groupdb' = [groupdb EXCEPT !.rec.groups = @ \cup {g},
                                  !.last = [op |-> "none", before |-> {}]]
    /\ UNCHANGED notGroupdb

\* record.delete()
RecordDelete ==
    /\ groupdb.rec.exists
    /\ groupdb' = [groupdb EXCEPT !.rec = NoRecord,
                                  !.last = [op |-> "none", before |-> {}]]
    /\ UNCHANGED notGroupdb

----------------------------------------------------------------------------
(* Registration (registration.py) *)

\* register(model, **o)
Register(model, o) ==
    /\ registry' = [register(registry, model, o) EXCEPT
                      !.last = [op |-> "register", model |-> model,
                                was |-> is_registered_model_in(registry, model),
                                before |-> RegistrySnapshot(registry)]]
    /\ UNCHANGED notRegistry

\* register_proxy(proxy_model)
RegisterProxy(model) ==
    /\ IsProxy(model)
    /\ registry' = [registry EXCEPT
                      !.attrs[model] =
                          IF "owner" \in registry.attrs[proxy_for_model(registry, model)]
                          THEN @ \cup {"owner"} ELSE @,
                      !.last.op = "register_proxy"]
    /\ UNCHANGED notRegistry

----------------------------------------------------------------------------
(* A type with a control relation and an owner field of its own *)

\* The databases the delegated rules are checked on: nobody is privileged,
\* "a" is in g1, and record 1 of the delegated type is owned by "a" or by
\* nobody.
DelegatedDBs ==
    {[d EXCEPT !.rowner = [r \in RIds |-> IF r = 1 THEN o ELSE Null]] :
        d \in {x \in RuleDBs : /\ x.superusers = {}
                                /\ x.members["g1"] = {"a"}
                                /\ \A g \in Groups : ~x.supergroup[g]},
        o \in {Null, "a"}}

\* register(model, ...) at import time, before any query is made
RegisterAtImport(model, o) ==
    /\ qs = NoQuery /\ out = NoOut
    /\ Register(model, o)

InitDelegated ==
    /\ db \in DelegatedDBs
    /\ settings \in SettingsSet
    /\ ambient = Null
    /\ qs = NoQuery
    /\ inst = NoInst
    /\ out = NoOut
    /\ AuxInit

NextDelegated ==
    \/ \E o \in RegisterOptions : RegisterAtImport("M", o)
    \/ \E u \in Users : ManagerAccessibleByUser("R", u)
    \/ Read("count")

SpecDelegated == InitDelegated /\ [][NextDelegated]_vars

----------------------------------------------------------------------------
(* The user views (registronapi/views.py) *)

\* register, POST with matching passwords
RegisterUser(email, department, full_name) ==
    /\ accounts.nextuid <= MaxUsers
    /\ accounts.nextpk <= MaxProfiles
    /\ LET r == register_user(accounts, email, department, full_name)
       IN accounts' = [r.acc EXCEPT
                         !.last = [op |-> "register", uid |-> accounts.nextuid,
                                   err |-> r.err, existed |-> FALSE,
                                   before |-> {}]]
    /\ UNCHANGED notAccounts

\* user_update up to the test of the method: User.objects.get(id=user_id)
\* and user.profile, which caches the profile on the object
UserUpdateFetch(uid) ==
    /\ accounts.held = NoUser
    /\ accounts.users[uid] # Null
    /\ ProfilesOf(accounts, uid) # {}
    /\ accounts' = [accounts EXCEPT
                      !.held = [uid |-> uid, email |-> accounts.users[uid],
                                profile |-> CHOOSE p \in ProfilesOf(accounts, uid) : TRUE]]
    /\ UNCHANGED notAccounts

\* user_update on GET: the form is rendered
UserUpdateGet ==
    /\ accounts.held # NoUser
    /\ accounts' = [accounts EXCEPT !.held = NoUser]
    /\ UNCHANGED notAccounts

\* user_update on POST
UserUpdatePost(email, full_name, department) ==
    /\ accounts.held # NoUser
    /\ accounts.nextpk <= MaxProfiles
    /\ LET uid == accounts.held.uid
           r == user_update(accounts, accounts.held, email, full_name, department)
       IN accounts' = [r.acc EXCEPT
                         !.held = NoUser,
                         !.last = [op |-> "update", uid |-> uid, err |-> r.err,
                                   existed |-> accounts.users[uid] # Null,
                                   before |-> {p.pk : p \in ProfilesOf(accounts, uid)}]]
    /\ UNCHANGED notAccounts

\* user_delete on POST
UserDelete(uid) ==
    /\ accounts.users[uid] # Null
    /\ accounts' = [user_delete(accounts, uid) EXCEPT
                      !.last = [op |-> "delete", uid |-> uid, err |-> Null,
                                existed |-> TRUE,
                                before |-> {p.pk : p \in ProfilesOf(accounts, uid)}]]
    /\ UNCHANGED notAccounts

NextAccounts ==
    \/ \E e \in Emails, d, n \in ProfileTexts : RegisterUser(e, d, n)
    \/ \E uid \in UserIds : UserUpdateFetch(uid)
    \/ UserUpdateGet
    \/ \E e \in Emails \cup {""}, n, d \in ProfileTexts : UserUpdatePost(e, n, d)
    \/ \E uid \in UserIds : UserDelete(uid)

SpecAccounts == InitFixed /\ [][NextAccounts]_vars

----------------------------------------------------------------------------
(* The department views (registrondeparts/views.py) *)

\* register_depart up to the lookup of get_or_create: refused by a
\* decorator, the form on GET, or on POST the lookup, after which the
\* request is over unless no row of the name was found
RegisterDepartRequest(r, user, method, name) ==
    /\ departs.reqs[r].phase = "idle"
    /\ LET runs == ViewRuns(user)
           look == get_or_create_lookup(departs, name)
           creates == runs /\ method = "POST" /\ look = "create"
       IN departs' = [departs EXCEPT
              !.reqs[r] = IF creates THEN [phase |-> "looked", name |-> name]
                          ELSE @,
              !.last = [op |-> "register_depart", method |-> method,
                        user |-> user, ran |-> runs,
                        err |-> IF runs /\ method = "POST"
                                     /\ look = "MultipleObjectsReturned"
                                THEN look ELSE Null,
                        before |-> departs.rows]]
    /\ UNCHANGED notDeparts

\* register_depart from the INSERT of get_or_create on
RegisterDepartCreate(r) ==
    /\ departs.reqs[r].phase = "looked"
    /\ departs.nextid <= MaxDeparts
    /\ departs' = [create_department(departs, departs.reqs[r].name) EXCEPT
                     !.reqs[r] = [phase |-> "idle", name |-> Null],
                     !.last.op = "register_depart_created",
                     !.last.before = departs.rows]
    /\ UNCHANGED notDeparts

\* department_delete
DepartmentDelete(user, method, depart_id) ==
    /\ LET runs == ViewRuns(user)
           exists == \E d \in departs.rows : d.id = depart_id
       IN departs' = [departs EXCEPT
              !.rows = IF runs /\ exists /\ method = "POST"
                       THEN {d \in @ : d.id # depart_id} ELSE @,
              !.last = [op |-> "department_delete", method |-> method,
                        user |-> user, ran |-> runs,
                        err |-> IF runs /\ ~exists THEN "DoesNotExist" ELSE Null,
                        before |-> departs.rows]]
    /\ UNCHANGED notDeparts

NextDeparts ==
    \/ \E r \in Reqs, user \in RequestUsers, method \in Methods,
          name \in DepartNames : RegisterDepartRequest(r, user, method, name)
    \/ \E r \in Reqs : RegisterDepartCreate(r)
    \/ \E user \in RequestUsers, method \in Methods, id \in 1..MaxDeparts :
          DepartmentDelete(user, method, id)

SpecDeparts == InitFixed /\ [][NextDeparts]_vars

----------------------------------------------------------------------------
(* The unrestricted-access hooks in the rule evaluator (models.py) *)

\* the rule evaluator called for whatever actor
EvaluateRulesForAnyActor(model, user, holds) ==
    /\ hookrun' = filter_rules_with_hooks(hookrun, model, user, holds)
    /\ UNCHANGED notHookrun

\* _filter_for_access_control calls the rule evaluator for a queryset of
\* the type and the actor; it does not for an anonymous actor unless
\* unshared records are public
EvaluateRules(model, user, holds) ==
    /\ IsAuthenticated(user) \/ settings.unsharedPublic
    /\ hookrun' = filter_rules_with_hooks(hookrun, model, user, holds)
    /\ UNCHANGED notHookrun

----------------------------------------------------------------------------
(* Specifications *)

\* The interceptor: every way of building and of executing a queryset.
Next ==
    \/ \E m \in Models : ManagerAll(m)
    \/ \E m \in Models, u \in Users : ManagerAccessibleByUser(m, u)
    \/ \E u \in Users : QuerySetAccessibleByUser(u)
    \/ Unrestricted
    \/ \E k \in 0..1 : Filter(k)
    \/ \E op \in {"count", "aggregate"} : Read(op)
    \/ \E unique \in BOOLEAN : Exists(unique)
    \/ Iterate(FALSE)
    \/ \E k \in 0..NumD : k \in Ids(qs.model) \cup {0} /\ GetOne(k, FALSE)
    \/ GetItem(FALSE)
    \/ GetSlice
    \/ GetLatest
    \/ GetInBulk
    \/ \E u \in Users : process_request(u)
    \/ process_response

Spec == Init /\ [][Next]_vars

\* The rule evaluator: Model.objects.accessible_by_user(user), executed,
\* over every database of RuleDBs.
InitRules ==
    /\ db \in RuleDBs
    /\ settings \in SettingsSet
    /\ ambient = Null
    /\ qs = NoQuery
    /\ inst = NoInst
    /\ out = NoOut
    /\ AuxInit

NextRules ==
    \/ \E m \in Models, u \in Users : ManagerAccessibleByUser(m, u)
    \/ Read("count")
    \/ Iterate(FALSE)

SpecRules == InitRules /\ [][NextRules]_vars

\* Querysets executed while a hook raises, and executed again afterwards.
NextFail ==
    \/ \E m \in Models : ManagerAll(m)
    \/ \E m \in Models, u \in Users : ManagerAccessibleByUser(m, u)
    \/ Read("count")
    \/ ReadRulesFail("HookError")
    \/ Iterate(FALSE)
    \/ \E u \in Users : process_request(u)
    \/ process_response

SpecFail == Init /\ [][NextFail]_vars

\* The choice of the actor: querysets of an auto-filtered type and of a type
\* registered with auto_filter=False, bound by the manager or not, executed
\* under every ambient actor.
ActorModels == {"D", "N"}

NextActor ==
    \/ \E m \in ActorModels : ManagerAll(m)
    \/ \E m \in ActorModels, u \in Users : ManagerAccessibleByUser(m, u)
    \/ \E k \in 0..1 : Filter(k)
    \/ Read("count")
    \/ Iterate(FALSE)
    \/ \E u \in Users : process_request(u)
    \/ process_response

SpecActor == Init /\ [][NextActor]_vars

\* Unrestricted querysets, the records taken from them and the relations
\* followed from those records.
NextUnrestricted ==
    \/ \E m \in Models : ManagerUnrestricted(m)
    \/ \E m \in Models, u \in Users : ManagerAccessibleByUser(m, u)
    \/ Unrestricted
    \/ \E k \in 0..1 : Filter(k)
    \/ GetSlice
    \/ Read("count")
    \/ Iterate(TRUE)
    \/ GetItem(TRUE)
    \/ RelatedSet
    \/ RelatedObject
    \/ \E u \in Users : process_request(u)
    \/ process_response

SpecUnrestricted == Init /\ [][NextUnrestricted]_vars

\* Groups created, saved and toggled in any order.
NextSharing ==
    \/ \E g \in ShareGroups, shareable \in BOOLEAN : GroupCreate(g, shareable)
    \/ \E g \in ShareGroups : GroupSave(g)
    \/ \E g \in ShareGroups : GroupToggle(g)

SpecSharing == InitFixed /\ [][NextSharing]_vars

\* A record of a directly controlled type created, saved and shared while
\* the groups' members and auto_share_groups grow.
InitAutoShare ==
    /\ db = CHOOSE d \in MachineDBs : \A r \in DIds \ {1} : d.groups[r] = {}
    /\ settings = [unsharedPublic |-> FALSE, noRelatedVisible |-> TRUE]
    /\ ambient = Null
    /\ qs = NoQuery
    /\ inst = NoInst
    /\ out = NoOut
    /\ alias = AliasIdle
    /\ threads = ThreadsIdle
    /\ groupdb = GroupsReady
    /\ registry = RegistryIdle
    /\ hookrun = HookrunIdle
    /\ accounts = AccountsIdle
    /\ departs = DepartsIdle

NextAutoShare ==
    \/ \E g \in OwnerGroups, user \in AuthUsers : GroupAddMember(g, user)
    \/ \E g \in OwnerGroups, h \in AutoGroups : GroupAddAutoShare(g, h)
    \/ \E owner \in AuthUsers \cup {Null} : RecordCreate(owner)
    \/ \E owner \in AuthUsers \cup {Null} : RecordSave(owner)
    \/ \E g \in AutoGroups : RecordShare(g)
    \/ RecordDelete

SpecAutoShare == InitAutoShare /\ [][NextAutoShare]_vars

\* Types registered in any order with any options, under either framework
\* behaviour for the proxy of a proxy.
InitRegistry ==
    /\ db = CHOOSE d \in MachineDBs : \A r \in DIds \ {1} : d.groups[r] = {}
    /\ settings = [unsharedPublic |-> FALSE, noRelatedVisible |-> TRUE]
    /\ ambient = Null
    /\ qs = NoQuery
    /\ inst = NoInst
    /\ out = NoOut
    /\ alias = AliasIdle
    /\ threads = ThreadsIdle
    /\ groupdb = GroupsIdle
    /\ \E flat \in BOOLEAN : registry = [RegistryIdle EXCEPT !.flat = flat]
    /\ hookrun = HookrunIdle
    /\ accounts = AccountsIdle
    /\ departs = DepartsIdle

NextRegistry ==
    \/ \E model \in RegTypes, o \in RegisterOptions : Register(model, o)
    \/ \E model \in RegTypes : RegisterProxy(model)

SpecRegistry == InitRegistry /\ [][NextRegistry]_vars

\* The rule evaluator run for every type and actor, with every outcome of
\* the registered hooks, over databases in which "b" may be a superuser or
\* a supergroup member.
HookDBs ==
    {d \in RuleDBs :
        /\ \A r \in DIds : d.owner[r] = Null /\ d.groups[r] = {} /\ d.parent[r] = 1
        /\ d.members["g1"] = {"a"}}

InitHooks ==
    /\ db \in HookDBs
    /\ settings \in SettingsSet
    /\ ambient = Null
    /\ qs = NoQuery
    /\ inst = NoInst
    /\ out = NoOut
    /\ alias = AliasIdle
    /\ threads = ThreadsIdle
    /\ groupdb = GroupsIdle
    /\ registry = RegistryIdle
    /\ \E extras \in HookConfigs : hookrun = [HookrunIdle EXCEPT !.extras = extras]
    /\ accounts = AccountsIdle
    /\ departs = DepartsIdle

NextHooks ==
    \E model \in Models, user \in Users, holds \in SUBSET ExtraHooks :
        EvaluateRules(model, user, holds)

SpecHooks == InitHooks /\ [][NextHooks]_vars

\* Requests handled concurrently by the worker threads.
NextThreads ==
    \/ \E t \in Threads, u \in Users \cup {Null} : ThreadProcessRequest(t, u)
    \/ \E t \in Threads, raises \in BOOLEAN : ThreadView(t, raises)
    \/ \E t \in Threads : ThreadProcessResponse(t)
    \/ \E t \in Threads : ThreadExceptionPropagates(t)

SpecThreads == Init /\ [][NextThreads]_vars

\* Queryset objects: which calls hand back a new object and which change
\* the one they are called on.
NextAlias ==
    \/ AliasManagerAll
    \/ \E u \in Users : AliasManagerAccessibleByUser(u)
    \/ AliasClone
    \/ AliasUnrestricted
    \/ \E u \in Users : AliasAccessibleByUser(u)
    \/ \E u \in Users : AliasDerivedAccessibleByUser(u)
    \/ AliasKeepDerived

SpecAlias == Init /\ [][NextAlias]_vars

\* The metadata propagator: objects obtained from querysets and the
\* relationships followed from them.
NextNav ==
    \/ \E m \in Models : ManagerAll(m)
    \/ \E m \in Models, u \in Users : ManagerAccessibleByUser(m, u)
    \/ \E u \in Users : QuerySetAccessibleByUser(u)
    \/ Unrestricted
    \/ Read("count")
    \/ Iterate(TRUE)
    \/ \E k \in 0..NumD : k \in Ids(qs.model) \cup {0} /\ GetOne(k, TRUE)
    \/ GetItem(TRUE)
    \/ RelatedSet
    \/ RelatedObject
    \/ \E u \in Users : process_request(u)
    \/ process_response

SpecNav == Init /\ [][NextNav]_vars

----------------------------------------------------------------------------
(* Vocabulary of the properties *)

\* an actor for whom an unrestricted-access hook holds or who is in a supergroup
Privileged(user) ==
    /\ IsAuthenticated(user)
    /\ (IsSuperuser(user) \/ \E g \in Groups : user \in db.members[g] /\ db.supergroup[g])

\* the records of a type an actor may see
ActorSees(model, user) ==
    IF ~IsAuthenticated(user) /\ ~settings.unsharedPublic THEN {}
    ELSE Visible(model, user)

\* the last operation read rows for its caller
ReadOps == {"count", "aggregate", "exists", "iterator", "get", "getitem",
            "latest", "in_bulk"}

\* the last operation ran on exactly Model.objects.accessible_by_user(user)
OnManagerBound(model) ==
    /\ out.op \in {"count", "iterator"}
    /\ out.pre.model = model
    /\ out.pre = accessible_by_user(NewQuerySet(model), out.pre.user)

\* the last operation ran on a queryset bound to an actor
OnBound ==
    /\ out.op \in ReadOps
    /\ out.pre.hasMeta
    /\ out.pre.user # Null

----------------------------------------------------------------------------
(* C1 *)

\* C1: for the directly controlled type and an authenticated actor who is
\* neither a superuser nor in a supergroup, accessible_by_user(actor) returns
\* exactly the records shared with one of the actor's groups, owned by the
\* actor, or (unshared records being public) in no access group.
TheoremC1 ==
    (OnManagerBound("D") /\ IsAuthenticated(out.pre.user)
        /\ ~Privileged(out.pre.user))
    => /\ out.err = Null
       /\ out.res =
            {r \in DIds :
                \/ \E g \in db.groups[r] : out.pre.user \in db.members[g]
                \/ db.owner[r] = out.pre.user
                \/ settings.unsharedPublic /\ db.groups[r] = {}}

\* an unshared record is returned to its owner, unshared records not being
\* public, while another record is withheld
WitnessC1 ==
    /\ OnManagerBound("D") /\ out.op = "iterator"
    /\ ~settings.unsharedPublic
    /\ \E r \in out.res : db.groups[r] = {} /\ db.owner[r] = out.pre.user
    /\ out.res # DIds

----------------------------------------------------------------------------
(* C2 *)

\* C2: for the delegated type and a non-privileged authenticated actor,
\* accessible_by_user(actor) returns exactly the records with a related
\* record owned by the actor or shared with one of the actor's groups, the
\* records with no related record if DGA_NO_RELATED_RECORD_VISIBILITY is on,
\* and the records with an unshared related record if unshared records are
\* public; with DGA_NO_RELATED_RECORD_VISIBILITY off a record with no
\* related record is never returned.
ClaimC2 ==
    (OnManagerBound("R") /\ IsAuthenticated(out.pre.user)
        /\ ~Privileged(out.pre.user))
    => /\ out.err = Null
       /\ out.res =
            {r \in RIds :
                \/ \E d \in Related(r) : db.owner[d] = out.pre.user
                \/ \E d \in Related(r) : \E g \in db.groups[d] :
                       out.pre.user \in db.members[g]
                \/ Related(r) = {} /\ settings.noRelatedVisible
                \/ settings.unsharedPublic
                     /\ \E d \in Related(r) : db.groups[d] = {}}

----------------------------------------------------------------------------
(* C3 *)

\* C3: for both types and every database, accessible_by_user(actor) returns
\* all records of the type when the actor is a superuser or a member of a
\* supergroup.
TheoremC3 ==
    \A m \in Models :
        (OnManagerBound(m) /\ Privileged(out.pre.user))
        => out.err = Null /\ out.res = Ids(m)

\* a supergroup member who is no superuser gets a record that is neither
\* owned by nor shared with them
WitnessC3 ==
    /\ OnManagerBound("D")
    /\ ~IsSuperuser(out.pre.user) /\ Privileged(out.pre.user)
    /\ out.res = DIds
    /\ \E r \in DIds :
          /\ db.owner[r] # out.pre.user
          /\ db.groups[r] \cap UserGroups(out.pre.user) = {}
          /\ db.groups[r] # {}

----------------------------------------------------------------------------
(* C4 *)

\* the rows a caller gets by executing a queryset: by counting or iterating
\* it, and by in_bulk over all keys
RowsRead(q) ==
    <<DirectRead(q, ambient, FALSE).res,
      InBulk(q, ambient, Ids(q.model)).res>>

\* C4: for the queryset the caller holds, whatever was done to it or to the
\* queryset it was derived from, and for every actor, each way of executing
\* qs.unrestricted() returns a superset of what the same way of executing
\* qs.accessible_by_user(actor) returns.
TheoremC4 ==
    Held =>
        \A u \in Users :
            LET bound == RowsRead(accessible_by_user(qs, u))
                free == RowsRead(unrestricted(qs))
            IN \A i \in 1..2 : bound[i] \subseteq free[i]

\* the queryset was bound to an actor and executed; bound to another actor it
\* returns some rows, and unrestricted it returns more
WitnessC4 ==
    /\ Held
    /\ out.op = "count" /\ out.pre.hasMeta /\ out.pre.user # Null
    /\ out.res # {}
    /\ \E u \in Users :
          /\ u # out.pre.user
          /\ DirectRead(accessible_by_user(qs, u), ambient, FALSE).res # {}
          /\ DirectRead(accessible_by_user(qs, u), ambient, FALSE).res
                # DirectRead(unrestricted(qs), ambient, FALSE).res

----------------------------------------------------------------------------
(* C5 *)

\* the last operation read the database with a queryset that the
\* interceptor filtered for the anonymous actor
FilteredForAnonymous ==
    /\ out.op \in {"count", "aggregate", "exists", "iterator"}
    /\ ~out.unique
    /\ ~out.pre.filtered /\ ~out.pre.filtering
    /\ FilterUser(out.pre, out.amb) = "anon"

\* the records with no access groups, or whose controlling related record
\* has no access groups
UnsharedRecords(model) ==
    IF HasControlRelation(model)
    THEN {r \in RIds : \E d \in Related(r) : db.groups[d] = {}}
    ELSE {r \in DIds : db.groups[r] = {}}

\* the records of a delegated type that have no controlling related record
OrphanRecords(model) ==
    IF HasControlRelation(model) THEN {r \in RIds : Related(r) = {}} ELSE {}

----------------------------------------------------------------------------
(* C6 *)

\* C6: every operation that reads rows (get, latest, aggregate, iteration,
\* count, exists outside a uniqueness check, in_bulk, index access, and the
\* same on a slice) on a queryset bound to an actor with accessible_by_user
\* reads only records that actor may see.
ClaimC6 ==
    (OnBound /\ ~out.unique)
    => out.res \subseteq ActorSees(out.pre.model, out.pre.user)

----------------------------------------------------------------------------
(* C7 *)

\* the last operation was get(pk=k) on a queryset bound to an actor, for a
\* record that exists and that the actor may not see
GetOfHidden ==
    /\ out.op = "get"
    /\ out.pre.hasMeta /\ out.pre.user # Null
    /\ out.key \in Ids(out.pre.model)
    /\ out.key \notin ActorSees(out.pre.model, out.pre.user)

\* C7: get on a queryset bound to an actor, for a record that exists but is
\* hidden from the actor, returns no record and raises what the same get
\* raises for a key that no record has: DoesNotExist, or for a sliced
\* queryset the AssertionError every get on it raises.
TheoremC7 ==
    GetOfHidden =>
        /\ out.res = {}
        /\ out.err # Null
        /\ out.err = Get(out.pre, out.amb, 0).err
        /\ can_filter(out.pre) => out.err = "DoesNotExist"

\* get raised DoesNotExist for a record that is in the table, matches the
\* other conditions of the queryset and is hidden from its actor
WitnessC7 ==
    /\ GetOfHidden
    /\ out.err = "DoesNotExist"
    /\ out.key \in out.pre.pks
    /\ IsAuthenticated(out.pre.user)

----------------------------------------------------------------------------
(* C8 *)

\* C8: exists() inside a uniqueness validation pass is evaluated over the
\* rows of the queryset with no visibility filter added, whatever the
\* ambient actor is; exists() outside such a pass, on a queryset for which
\* an actor is determined, only finds records that actor may see.
ClaimC8 ==
    /\ (out.op = "exists" /\ out.unique)
       => /\ out.err = Null
          /\ out.res = Eval(out.pre)
          /\ out.applied = out.pre.vis
    /\ (out.op = "exists" /\ ~out.unique
            /\ FilterUser(out.pre, out.amb) # Null)
       => out.res \subseteq
             ActorSees(out.pre.model, FilterUser(out.pre, out.amb))

----------------------------------------------------------------------------
(* C9 *)

\* C9: every execution of a queryset bound to an actor who can see records
\* at all (the empty queryset aside) reads the database through exactly one
\* visibility filter, the one of that actor, however often the queryset was
\* executed before.
ClaimC9 ==
    (OnBound /\ ~out.unique /\ out.err = Null /\ ~out.pre.none
        /\ (IsAuthenticated(out.pre.user) \/ settings.unsharedPublic))
    => out.applied = <<out.pre.user>>

----------------------------------------------------------------------------
(* C10 *)

\* the instance the caller holds has the metadata of src
SameMeta(src) ==
    /\ inst.hasMeta = src.hasMeta
    /\ inst.user = src.user
    /\ inst.unres = src.unres

\* C10: a record obtained from a queryset by iteration, get or index access
\* carries the metadata of the queryset; the related object and the related
\* collection reached from a record carry the metadata of the record; and
\* the related collection reached from a record that carries actor A, after
\* any chain of such steps, contains only records A may see, whatever the
\* ambient actor is.
TheoremC10 ==
    /\ (out.op \in {"iterator", "get", "getitem"} /\ out.res # {})
       => /\ inst.model = out.pre.model /\ inst.id \in out.res
          /\ SameMeta(out.pre)
    /\ (out.op \in {"related_set", "related_object"} /\ out.res # {})
       => inst.id \in out.res /\ SameMeta(out.src)
    /\ out.op = "related_set"
       => /\ out.pre.hasMeta = out.src.hasMeta
          /\ out.pre.user = out.src.user
          /\ (out.src.hasMeta /\ out.src.user # Null)
             => /\ out.err = Null
                /\ out.res \subseteq ActorSees("D", out.src.user)
                /\ out.res = Related(out.src.id)
                                \cap ActorSees("D", out.src.user)

\* the related collection of a record that carries an actor other than the
\* ambient one holds some of the related records and withholds another
WitnessC10 ==
    /\ out.op = "related_set"
    /\ out.src.hasMeta /\ out.src.user # Null /\ out.src.user # out.amb
    /\ out.amb # Null
    /\ out.res # {} /\ out.res # Related(out.src.id)
    /\ inst.model = "D" /\ inst.user = out.src.user

----------------------------------------------------------------------------
(* C11 *)

\* the last operation executed a queryset that the interceptor had not yet
\* seen: neither marked as filtered nor guarded, not sliced, not empty
OnFresh ==
    /\ out.op \in {"count", "iterator"}
    /\ ~out.pre.filtered /\ ~out.pre.filtering
    /\ ~out.pre.none /\ out.pre.lim = 0

----------------------------------------------------------------------------
(* C12 *)

\* C12: no execution of a queryset marked unrestricted reads the database
\* through a visibility filter, and neither does the fetch of the related
\* collection or of the related object of a record that carries the
\* unrestricted mark, whatever the ambient actor is.
ClaimC12 ==
    /\ (out.op \in ReadOps /\ out.pre.hasMeta /\ out.pre.unres)
       => out.applied = <<>>
    /\ (out.op \in {"related_set", "related_object"}
            /\ out.src.hasMeta /\ out.src.unres)
       => out.applied = <<>> /\ out.err = Null

----------------------------------------------------------------------------
(* C13 *)

\* the queryset object with the given metadata, as the caller executes it
QuerySetWith(meta) ==
    IF meta.has
    THEN [NewQuerySet("D") EXCEPT !.hasMeta = TRUE, !.user = meta.user,
                                  !.unres = meta.unres]
    ELSE NewQuerySet("D")

\* C13: after d = q.unrestricted(), d is another object than q, q has the
\* metadata it had before the call (its actor, unrestricted false) and still
\* returns exactly what its actor may see, and d has actor None and
\* unrestricted True.
TheoremC13 ==
    alias.op = "unrestricted" =>
        /\ ~alias.same
        /\ MetaAt(alias, alias.q) = alias.before
        /\ MetaAt(alias, alias.d) = [has |-> TRUE, user |-> Null, unres |-> TRUE]
        /\ (alias.before.has /\ alias.before.user # Null)
           => /\ ~MetaAt(alias, alias.q).unres
              /\ DirectRead(QuerySetWith(MetaAt(alias, alias.q)),
                            ambient, FALSE).res
                 = ActorSees("D", alias.before.user)

\* unrestricted() was called on a queryset bound to an actor who may see
\* some records and not others
WitnessC13 ==
    /\ alias.op = "unrestricted"
    /\ alias.before.has /\ alias.before.user # Null
    /\ ActorSees("D", alias.before.user) # {}
    /\ ActorSees("D", alias.before.user) # DIds
    /\ DirectRead(QuerySetWith(MetaAt(alias, alias.d)), ambient, FALSE).res
          = DIds

----------------------------------------------------------------------------
(* C14 *)

\* C14: after d = q.accessible_by_user(actor), d is another object than q,
\* d is tagged {actor, unrestricted: false}, and q has the metadata it had
\* before the call.
ClaimC14 ==
    alias.op = "accessible_by_user" =>
        /\ ~alias.same
        /\ MetaAt(alias, alias.d)
             = [has |-> TRUE, user |-> alias.arg, unres |-> FALSE]
        /\ MetaAt(alias, alias.q) = alias.before

----------------------------------------------------------------------------
(* C15 *)

\* C15: while a thread handles a request the store holds the request's
\* actor, and whenever the thread handles no request, in particular after a
\* request whose view raised, the store holds None.
ClaimC15 ==
    \A t \in Threads :
        /\ threads[t].phase \in {"view", "response", "failed"}
           => get_access_control_user(threads, t) = threads[t].req
        /\ threads[t].phase = "idle"
           => get_access_control_user(threads, t) = Null

----------------------------------------------------------------------------
(* C16 *)

\* C16: in every interleaving of the requests of the threads, what
\* get_access_control_user returns in a thread is what that same thread
\* last stored, or None if it has stored nothing.
TheoremC16 ==
    \A t \in Threads : get_access_control_user(threads, t) = threads[t].last

\* two threads are handling requests of two different actors at once
WitnessC16 ==
    /\ threads["t1"].phase = "view" /\ threads["t2"].phase = "view"
    /\ get_access_control_user(threads, "t1") = "a"
    /\ get_access_control_user(threads, "t2") = "b"

----------------------------------------------------------------------------
(* C17 *)

\* C17: after any sequence of group creations, saves and toggles, every
\* group that can be shared with is in the can_share_with of every other
\* group, every group that cannot is in the can_share_with of no other
\* group, and every group is in its own can_share_with.
ClaimC17 ==
    \A g \in groupdb.exists :
        /\ g \in groupdb.csw[g]
        /\ \A h \in groupdb.exists \ {g} :
              /\ groupdb.cbsw[g] => g \in groupdb.csw[h]
              /\ ~groupdb.cbsw[g] => g \notin groupdb.csw[h]

----------------------------------------------------------------------------
(* C18 *)

\* the groups the record's owner is a member of
OwnerMemberships ==
    {g \in groupdb.exists : groupdb.rec.owner \in groupdb.members[g]}

\* C18: right after a record of a directly controlled type is created with
\* an owner, its access_groups contain the auto_share_groups of every group
\* the owner is a member of; right after a record is created without an
\* owner it has no access group; right after an existing record is saved its
\* access_groups are the ones it had before.
TheoremC18 ==
    /\ (groupdb.last.op = "create" /\ groupdb.rec.owner # Null)
          => \A g \in OwnerMemberships : groupdb.auto[g] \subseteq groupdb.rec.groups
    /\ (groupdb.last.op = "create" /\ groupdb.rec.owner = Null)
          => groupdb.rec.groups = {}
    /\ groupdb.last.op = "save" => groupdb.rec.groups = groupdb.last.before

\* a record created by the member of a group that shares automatically
WitnessC18 ==
    /\ groupdb.last.op = "create"
    /\ groupdb.rec.owner # Null
    /\ \E g \in OwnerMemberships : groupdb.auto[g] # {}
    /\ groupdb.rec.groups # {}

----------------------------------------------------------------------------
(* C19 *)

\* C19: right after register is called on a type that is registered or
\* resolves to a registered type, whatever the options, the registered set,
\* the auto-filter set and every hook list are what they were before the call.
TheoremC19 ==
    (registry.last.op = "register" /\ registry.last.was)
        => RegistrySnapshot(registry) = registry.last.before

\* register called with other options on a registered type, and on a proxy
\* of a registered type
WitnessC19 ==
    /\ registry.last.op = "register"
    /\ registry.last.was
    /\ registry.last.model = "P1"
    /\ "P1" \notin registry.registered
    /\ "M" \in registry.registered \ registry.auto
    /\ registry.hooks["M"] = <<"_is_superuser", "hook">>

----------------------------------------------------------------------------
(* C20 *)

\* the types a proxy type is, directly or through other proxies, a view over
ProxyChain(model) ==
    IF model = "P2" THEN {"P1", "M"} ELSE IF model = "P1" THEN {"M"} ELSE {}

\* a proxy type is treated as its concrete type is
AnswersAsConcrete(model) ==
    /\ is_registered_model_in(registry, model)
          = is_registered_model_in(registry, concrete_model(model))
    /\ is_auto_filtered_in(registry, model)
          = is_auto_filtered_in(registry, concrete_model(model))
    /\ \A explicit \in BOOLEAN :
          filters_queries(registry, model, explicit)
              = filters_queries(registry, concrete_model(model), explicit)
    /\ get_unrestricted_access_hooks_in(registry, model)
          = get_unrestricted_access_hooks_in(registry, concrete_model(model))

\* C20: whatever has been registered, every proxy type over a registered
\* concrete type, at any depth of the proxy chain, answers is_registered_model
\* and is_auto_filtered as the concrete type does and has its queries
\* filtered as the concrete type's are; a type that is neither registered nor
\* a proxy over a registered type answers false to both.
ClaimC20 ==
    \A model \in RegTypes :
        /\ (IsProxy(model) /\ concrete_model(model) \in registry.registered)
              => AnswersAsConcrete(model)
        /\ (model \notin registry.registered
              /\ ProxyChain(model) \cap registry.registered = {})
              => /\ ~is_registered_model_in(registry, model)
                 /\ ~is_auto_filtered_in(registry, model)

----------------------------------------------------------------------------
(* C21 *)

\* the hook list of the type the control relation of the queried type of
\* the last run leads to: the directly controlled type in both cases
ResolvedHooks == <<"is_superuser">> \o hookrun.extras["D"]

\* C21: in a run of the rule evaluator for an unauthenticated actor no hook
\* is called.  For an authenticated actor the hooks called are an initial
\* part of the list of the resolved type, is_superuser first and the
\* registered extras after it in their order, every hook before the last one
\* called returned false, the calls stop early only at a hook that returned
\* true, and if a hook returned true the filter is the empty Q object.
TheoremC21 ==
    hookrun.op = "rules" =>
        LET called == hookrun.consulted
            ret(h) == HookReturns(h, hookrun.user, hookrun.holds)
        IN IF ~IsAuthenticated(hookrun.user) THEN called = << >>
           ELSE /\ Len(called) >= 1
                /\ Len(called) <= Len(ResolvedHooks)
                /\ called = SubSeq(ResolvedHooks, 1, Len(called))
                /\ called[1] = "is_superuser"
                /\ \A i \in 1..(Len(called) - 1) : ~ret(called[i])
                /\ Len(called) < Len(ResolvedHooks) => ret(called[Len(called)])
                /\ (\E i \in 1..Len(called) : ret(called[i]))
                      => hookrun.rules = {}

\* for a query on the delegated type the extra hook of the directly
\* controlled type was called after is_superuser and let the actor, who is
\* no superuser, see everything; the hook of the delegated type was not called
WitnessC21 ==
    /\ hookrun.op = "rules"
    /\ hookrun.model = "R"
    /\ hookrun.extras["R"] = <<"r_hook">>
    /\ "r_hook" \in hookrun.holds
    /\ hookrun.consulted = <<"is_superuser", "d_hook">>
    /\ ~IsSuperuser(hookrun.user)
    /\ hookrun.rules = {}

----------------------------------------------------------------------------
(* C22 *)

\* the last operation yielded a record of a queryset that was not bound to
\* an actor and was filtered for the ambient actor
YieldedUnderAmbient ==
    /\ out.op \in {"iterator", "getitem", "get"}
    /\ ~out.pre.hasMeta
    /\ ~out.pre.filtered /\ ~out.pre.filtering
    /\ is_auto_filtered(out.pre.model)
    /\ out.amb # Null
    /\ out.res # {}

\* C22: when a queryset with no binding is executed and filtered for the
\* ambient actor, the queryset and the record it yields afterwards carry
\* metadata naming that actor, and the related collection reached from the
\* record contains only records that actor may see, whatever the ambient
\* actor is by then.
ClaimC22 ==
    YieldedUnderAmbient =>
        /\ qs.hasMeta /\ qs.user = out.amb
        /\ inst.hasMeta /\ inst.user = out.amb
        /\ inst.model = "R"
           => \A later \in Users \cup {Null} :
                 DirectRead(RelatedQuerySet(inst), later, FALSE).res
                    \subseteq ActorSees("D", out.amb)

----------------------------------------------------------------------------
(* C23 *)

\* the conditions of the queryset include the visibility filter of the actor
HasFilterOf(q, user) == \E i \in 1..Len(q.vis) : q.vis[i] = user

\* C23: whenever the queryset the caller holds carries the "already
\* filtered" mark and an actor is determined for it (the one it is bound to,
\* or else the ambient one), its conditions include the visibility filter of
\* that actor, or it is the empty queryset; and executing it returns only
\* records that actor may see.
ClaimC23 ==
    (Held /\ qs.filtered /\ is_registered_model(qs.model)
        /\ FilterUser(qs, ambient) # Null)
    => /\ qs.none \/ HasFilterOf(qs, FilterUser(qs, ambient))
       /\ DirectRead(qs, ambient, FALSE).res
             \subseteq ActorSees(qs.model, FilterUser(qs, ambient))

----------------------------------------------------------------------------
(* C24 *)

\* C24: right after an execution of the queryset in which the rule
\* evaluator raised, the queryset is neither guarded nor marked, and
\* executing it again returns only records its actor may see.
ClaimC24 ==
    (out.op = "count" /\ out.err = "HookError")
    => /\ ~qs.filtering
       /\ ~qs.filtered
       /\ FilterUser(qs, ambient) # Null
          => DirectRead(qs, ambient, FALSE).res
                \subseteq ActorSees(qs.model, FilterUser(qs, ambient))

----------------------------------------------------------------------------
(* C25 *)

\* the depth up to which nested filterings are followed
MaxNesting == 4

\* C25: an execution of a queryset that carries the filtering guard reads
\* the database with the visibility filters the queryset already had and no
\* other; and taking the SQL of the queryset the caller holds builds at most
\* one visibility filter: the subquery of that filter, a clone made while
\* the guard is set, is not filtered in turn, under any ambient actor.
TheoremC25 ==
    /\ (out.op \in ReadOps /\ out.pre.filtering /\ out.err = Null)
       => out.applied = out.pre.vis
    /\ Held
       => \A amb \in Users \cup {Null} :
             /\ NestedFilterings(qs, amb, MaxNesting) <= 1
             /\ FilterUser(qs, amb) # Null
                => LET inner == visibility_subquery(qs, FilterUser(qs, amb))
                   IN /\ db_wrapper(inner, amb, FALSE).err = Null
                      /\ db_wrapper(inner, amb, FALSE).qset.vis = inner.vis

\* a queryset bound to an actor was executed through exactly one visibility
\* filter, and it is still to be filtered when it is executed again
WitnessC25 ==
    /\ out.op = "count"
    /\ OnBound
    /\ out.applied = <<out.pre.user>>
    /\ NestedFilterings(qs, ambient, MaxNesting) = 1

----------------------------------------------------------------------------
(* C26 *)

\* the records of the delegated type the rules of an authenticated actor
\* admit, read off the tables alone
DelegatedRows(user) ==
    {r \in RIds :
        \/ \E d \in Related(r) : db.owner[d] = user
        \/ \E d \in Related(r) : \E g \in db.groups[d] : user \in db.members[g]
        \/ settings.noRelatedVisible /\ Related(r) = {}
        \/ settings.unsharedPublic
             /\ (Related(r) = {} \/ \E d \in Related(r) : db.groups[d] = {})}

\* C26: under every ambient actor, accessible_by_user(X) on the delegated
\* type, for an authenticated X who is not privileged, returns the records
\* that the related records' owners and groups, looked up in the whole
\* related table and the whole group table, admit: the lookups of the rule
\* evaluator are not filtered for the ambient actor.
TheoremC26 ==
    (OnManagerBound("R") /\ IsAuthenticated(out.pre.user)
        /\ ~Privileged(out.pre.user))
    => /\ out.err = Null
       /\ out.res = DelegatedRows(out.pre.user)

\* a record is returned to X because a related record is shared with a
\* group of X, while the ambient actor is another one who may see none of
\* the related records that are shared with X
WitnessC26 ==
    /\ OnManagerBound("R")
    /\ IsAuthenticated(out.pre.user)
    /\ out.amb \in AuthUsers /\ out.amb # out.pre.user
    /\ ~settings.unsharedPublic /\ ~settings.noRelatedVisible
    /\ \E r \in out.res :
          /\ \A d \in Related(r) : db.owner[d] # out.pre.user
          /\ \E d \in Related(r) : d \in accessible_through_group(out.pre.user)
          /\ \A d \in Related(r) \cap accessible_through_group(out.pre.user) :
                d \notin ActorSees("D", out.amb)

----------------------------------------------------------------------------
(* C27 *)

\* C27: a type registered with a control relation has no access_groups
\* relation; and whoever owns a record of the delegated type, the record is
\* returned to an authenticated actor who is not privileged exactly when the
\* owners and access groups of its related records (or the settings for
\* records without related or shared records) admit the actor.
TheoremC27 ==
    /\ \A t \in registry.registered :
          "access_control_relation" \in registry.attrs[t]
             => "access_groups" \notin registry.attrs[t]
    /\ (OnManagerBound("R") /\ IsAuthenticated(out.pre.user)
           /\ ~Privileged(out.pre.user))
       => \A r \in RIds :
             /\ (db.rowner[r] = out.pre.user /\ r \notin DelegatedRows(out.pre.user))
                   => r \notin out.res
             /\ (db.rowner[r] # out.pre.user /\ r \in DelegatedRows(out.pre.user))
                   => r \in out.res

\* a type was registered with a control relation and the default owner
\* field, and a read for an actor left out a record the actor owns and
\* returned one the actor does not own
WitnessC27 ==
    /\ \E t \in registry.registered :
          {"access_control_relation", "owner"} \subseteq registry.attrs[t]
    /\ OnManagerBound("R")
    /\ IsAuthenticated(out.pre.user)
    /\ \E r \in RIds \ out.res : db.rowner[r] = out.pre.user
    /\ \E r \in out.res : db.rowner[r] # out.pre.user

----------------------------------------------------------------------------
(* C28 *)

\* a hook of the resolved type returns true for the actor of the last run,
\* or the actor is in a supergroup
PrivilegedInRun ==
    /\ IsAuthenticated(hookrun.user)
    /\ \/ \E i \in 1..Len(ResolvedHooks) :
             HookReturns(ResolvedHooks[i], hookrun.user, hookrun.holds)
       \/ InSupergroup(hookrun.user)

\* C28: a run of the rule evaluator is never for an anonymous actor while
\* unshared records are not public, and it returns the empty Q object, which
\* matches every record, exactly when a hook of the resolved type returns
\* true for the actor or the actor is in a supergroup; so does the evaluator
\* without extra hooks for every type, owned or not, and every actor it can
\* be called for.
TheoremC28 ==
    /\ hookrun.op = "rules" =>
          /\ IsAuthenticated(hookrun.user) \/ settings.unsharedPublic
          /\ hookrun.rules = {} <=> PrivilegedInRun
    /\ \A model \in {"D", "R", "N", "U"}, user \in Users :
          (IsAuthenticated(user) \/ settings.unsharedPublic)
             => (FilterRules(model, user) = {} <=> Privileged(user))

\* the evaluator ran for an authenticated actor for whom no hook holds and
\* who is in no supergroup, on the delegated type with both settings off,
\* and returned a restriction
WitnessC28 ==
    /\ hookrun.op = "rules"
    /\ hookrun.model = "R"
    /\ IsAuthenticated(hookrun.user)
    /\ ~PrivilegedInRun
    /\ ~settings.unsharedPublic /\ ~settings.noRelatedVisible
    /\ hookrun.rules # {}

----------------------------------------------------------------------------
(* C29 *)

\* C29: every user row has exactly one Profile row and every Profile row is
\* of a user row; register and user_update end without an exception;
\* register leaves the user it created in the table; and a user_update that
\* found the user's row leaves the user in the table under the same key
\* with the very Profile row it had.
TheoremC29 ==
    /\ \A uid \in UserIds :
          accounts.users[uid] # Null
             => Cardinality(ProfilesOf(accounts, uid)) = 1
    /\ \A p \in accounts.profiles : accounts.users[p.user] # Null
    /\ accounts.last.op \in {"register", "update"} => accounts.last.err = Null
    /\ accounts.last.op = "register" => accounts.users[accounts.last.uid] # Null
    /\ (accounts.last.op = "update" /\ accounts.last.existed)
          => /\ accounts.users[accounts.last.uid] # Null
             /\ {p.pk : p \in ProfilesOf(accounts, accounts.last.uid)}
                   = accounts.last.before

\* a user_update wrote both profile fields of an existing user, who has the
\* one Profile created at registration, while another user was deleted
WitnessC29 ==
    /\ accounts.last.op = "update"
    /\ accounts.last.existed
    /\ accounts.last.err = Null
    /\ \E p \in ProfilesOf(accounts, accounts.last.uid) :
          /\ p.pk \in accounts.last.before
          /\ p.department = "IT" /\ p.full_name = "IT"
    /\ \E uid \in UserIds : uid < accounts.nextuid /\ accounts.users[uid] = Null

----------------------------------------------------------------------------
(* C30 *)

\* no two departments have the same name
UniqueDepartNames ==
    \A p, q \in departs.rows : p.name = q.name => p.id = q.id

\* the view functions run for an authenticated user of the Administrator
\* group only, the rows change on POST only, and department_delete removes
\* at most the department it was called for
RestrictedDeparts ==
    /\ departs.last.ran =>
          /\ departs.last.user.auth
          /\ \E i \in 1..Len(departs.last.user.groups) :
                departs.last.user.groups[i] = "Administrator"
    /\ (departs.last.op \in {"register_depart", "department_delete"}
           /\ (departs.last.method = "GET" \/ ~departs.last.ran))
          => departs.rows = departs.last.before
    /\ departs.last.op = "department_delete"
          => /\ departs.rows \subseteq departs.last.before
             /\ Cardinality(departs.last.before \ departs.rows) <= 1
    /\ departs.last.op = "register_depart_created"
          => \E d \in departs.rows \ departs.last.before :
                departs.rows = departs.last.before \cup {d}

\* C30: register_depart creates a department of a name only if there is
\* none, so that no two departments have the same name; a GET creates
\* nothing, department_delete removes a department on POST only, and both
\* views run only for a logged-in user of the Administrator group.
ClaimC30 ==
    /\ UniqueDepartNames
    /\ RestrictedDeparts

====
